---- MODULE Spec2Model ----
(***************************************************************************)
(* A model of the GitHub contribution heatmap generator:                   *)
(*   - the contribution data normalizer (GitHubContributionFetcher in      *)
(*     index.ts): flattening, statistics, streaks, per-weekday totals;     *)
(*   - the heatmap renderer (SVGHeatmapGenerator in svg-heatmap.ts):       *)
(*     layout dimensions, colour levels and the assembled markup.          *)
(*                                                                         *)
(* Dates.  The program holds dates as ISO strings "YYYY-MM-DD" and reads   *)
(* them with `new Date(s)`, which parses a date-only string as UTC         *)
(* midnight.  The model holds a date as its day ordinal in the year 2024   *)
(* (0 = 2024-01-01, 31 = 2024-02-01, -1 = 2023-12-31); getTime is the      *)
(* ordinal times the milliseconds of a day, so every difference of two     *)
(* getTime values is the one the program computes.  getMonth reads the     *)
(* date in LOCAL time: west of UTC, UTC midnight is the evening of the     *)
(* previous calendar day (tzWest).                                         *)
(*                                                                         *)
(* Markup.  The program concatenates strings; the model keeps the markup   *)
(* as the sequence of the elements the strings spell, in emission order,   *)
(* each a record of its attributes.  Text content is a string, numbers     *)
(* formatted in decimal as template literals do.                           *)
(***************************************************************************)
EXTENDS Integers, Sequences, FiniteSets, TLC

VARIABLES
    pc,          \* position in the script: which call has returned
    tzWest,      \* environment: the local time zone is behind UTC
    calendar,    \* the ContributionCalendar handed to the normalizer
    processed,   \* what processContributionDataForHeatmap returned
    data,        \* the HeatmapData handed to the renderer
    options,     \* the caller's HeatmapOptions (only the keys supplied)
    svgDimensions, \* generateSVG's local `dimensions`: what calculateDimensions returned
    svg,         \* the markup returned by generateSVG
    countA,      \* getContributionLevel: a first argument
    countB,      \* getContributionLevel: a second argument
    levelA,      \* getContributionLevel(countA), once called
    levelB,      \* getContributionLevel(countB), once called
    generator,   \* the SVGHeatmapGenerator instance: its defaultOptions field
    history,     \* the render calls made on the generator so far, in order
    repoActivity,\* fetchRepositoryActivity: the per-repository promises, in listing order
    svgLogos,    \* the logo markups imported from ./logos
    colorScheme, \* the scheme name handed to generateCustomColorHeatmap
    fetchResult, \* how the promise of fetchContributionData settled
    env,         \* environment of the file and raster steps: what fails, what sharp reads
    calls,       \* the calls made on fs and sharp, in order
    log,         \* the console output, in order
    outcome      \* how the last file or raster call ended

\* what only the presets and the scripts around the renderer read or write
presetVars == <<svgLogos, colorScheme, fetchResult>>

\* the side effects of the file and raster steps
ioVars == <<env, calls, log, outcome>>

vars == <<pc, tzWest, calendar, processed, data, options, svgDimensions, svg,
          countA, countB, levelA, levelB, generator, history, repoActivity,
          presetVars, ioVars>>

----------------------------------------------------------------------------
(* Bounds of the model (not program constants).                            *)

\* longest day list of the generic normalizer inputs
MaxDays == 3
\* the generic normalizer inputs take their dates in 0..MaxDate
MaxDate == 2
\* the generic inputs take their contribution counts in 0..MaxCount
MaxCount == 1
\* getContributionLevel is called on 0..MaxLevelCount (and on 1000)
MaxLevelCount == 12
\* most weeks of a generic renderer input
MaxWeeks == 4
\* the renderer inputs take cellSize in 1..MaxCellSize, cellPadding in 0..MaxCellSize
MaxCellSize == 3
\* a short logo list holds MaxLogos logos (the others hold none, or 7)
MaxLogos == 1
\* convertToPNG is called with a scale of 0, 1/2, 1, ... MaxScaleHalves/2
MaxScaleHalves == 6

\* the render calls made on one generator
MaxCalls == 3

\* the repositories a listing holds
MaxRepos == 3

----------------------------------------------------------------------------
(* Program constants.                                                      *)

\* index.ts:265  (1000 * 60 * 60 * 24)
MsPerDay == 86400000
\* svg-heatmap.ts calculateDimensions: const daysCount = 7
daysCount == 7

----------------------------------------------------------------------------
(* Generic helpers.                                                        *)

Max2(a, b) == IF a >= b THEN a ELSE b

Abs(a) == IF a >= 0 THEN a ELSE -a

\* Math.ceil(a / b) for a >= 0, b > 0
CeilDiv(a, b) == (a + b - 1) \div b

RECURSIVE SumSeq(_)
SumSeq(s) == IF s = <<>> THEN 0 ELSE Head(s) + SumSeq(Tail(s))

RECURSIVE Concat(_)
\* Array.prototype.flat over a sequence of sequences
Concat(ss) == IF ss = <<>> THEN <<>> ELSE Head(ss) \o Concat(Tail(ss))

Digit == <<"0", "1", "2", "3", "4", "5", "6", "7", "8", "9">>

RECURSIVE DecStr(_)
\* `${n}` for a non-negative integer n: its decimal digits
DecStr(n) == IF n < 10 THEN Digit[n + 1]
             ELSE DecStr(n \div 10) \o Digit[(n % 10) + 1]

----------------------------------------------------------------------------
(* Dates.                                                                  *)

\* new Date(date).getTime(), up to the epoch (see the header)
getTime(date) == date * MsPerDay

\* first ordinal of each month of 2024 (a leap year)
MonthStart == <<0, 31, 60, 91, 121, 152, 182, 213, 244, 274, 305, 335>>

\* the month (0..11) of a calendar day given by its ordinal, -31..365
MonthOfDay(d) ==
    IF d < 0 THEN 11
    ELSE CHOOSE m \in 0..11 :
            /\ MonthStart[m + 1] <= d
            /\ (m = 11 \/ d < MonthStart[m + 2])

\* the calendar day `new Date(date)` falls on in local time
LocalDay(date) == IF tzWest THEN date - 1 ELSE date

\* new Date(date).getMonth()
getMonth(date) == MonthOfDay(LocalDay(date))

----------------------------------------------------------------------------
(* The renderer's colour levels.                                           *)

getContributionLevelOffByOne(count) ==
    IF count = 0 THEN 0
    ELSE IF count < 3 THEN 1
    ELSE IF count <= 6 THEN 2
    ELSE IF count <= 9 THEN 3
    ELSE 4

\* SVGHeatmapGenerator.getContributionLevel
getContributionLevel(count) ==
    IF count = 0 THEN 0
    ELSE IF count <= 3 THEN 1
    ELSE IF count <= 6 THEN 2
    ELSE IF count <= 9 THEN 3
    ELSE 4

----------------------------------------------------------------------------
(* The normalizer (GitHubContributionFetcher).                             *)

\* ContributionDay (the color field is never read)
Day(date, count, weekday) ==
    [date |-> date, contributionCount |-> count, weekday |-> weekday]

\* ContributionWeek
Week(firstDay, days) == [firstDay |-> firstDay, contributionDays |-> days]

\* the comparator of days.sort: (a, b) => getTime(a.date) - getTime(b.date)
compareDays(a, b) == getTime(a.date) - getTime(b.date)

RECURSIVE InsertSorted(_, _)
\* `d` placed after every element that does not compare greater than it
InsertSorted(d, s) ==
    IF s = <<>> THEN <<d>>
    ELSE IF compareDays(Head(s), d) <= 0 THEN <<Head(s)>> \o InsertSorted(d, Tail(s))
    ELSE <<d>> \o s

RECURSIVE sortDays(_)
\* days.sort(comparator): Array.prototype.sort is stable, so days of equal
\* date keep their input order
sortDays(days) ==
    IF days = <<>> THEN <<>>
    ELSE InsertSorted(days[Len(days)], sortDays(SubSeq(days, 1, Len(days) - 1)))

\* GitHubContributionFetcher.isConsecutiveDay
isConsecutiveDay(date1, date2) ==
    LET diffTime == Abs(getTime(date2) - getTime(date1))
        diffDays == CeilDiv(diffTime, MsPerDay)
    IN  diffDays = 1

RECURSIVE streakLoopLongestAtBreak(_, _, _)
streakLoopLongestAtBreak(sortedDays, i, acc) ==
    IF i < 1 THEN acc
    ELSE
        LET day == sortedDays[i]
        IN  IF day.contributionCount > 0
            THEN LET tempStreak == acc.tempStreak + 1
                     currentStreak ==
                        IF \/ i = Len(sortedDays)
                           \/ isConsecutiveDay(sortedDays[i + 1].date, day.date)
                        THEN tempStreak
                        ELSE acc.currentStreak
                 IN  streakLoopLongestAtBreak(sortedDays, i - 1,
                        [acc EXCEPT !.currentStreak = currentStreak,
                                    !.tempStreak = tempStreak])
            ELSE streakLoopLongestAtBreak(sortedDays, i - 1,
                    [acc EXCEPT !.longestStreak = Max2(@, acc.tempStreak),
                                !.tempStreak = 0])

RECURSIVE streakLoop(_, _, _)
\* the for loop of calculateStreaks at index i (1-based), i down to 1
streakLoop(sortedDays, i, acc) ==
    IF i < 1 THEN acc
    ELSE
        LET day == sortedDays[i]
        IN  IF day.contributionCount > 0
            THEN LET tempStreak == acc.tempStreak + 1
                     longestStreak == Max2(acc.longestStreak, tempStreak)
                     currentStreak ==
                        IF \/ i = Len(sortedDays)
                           \/ isConsecutiveDay(sortedDays[i + 1].date, day.date)
                        THEN tempStreak
                        ELSE acc.currentStreak
                 IN  streakLoop(sortedDays, i - 1,
                        [currentStreak |-> currentStreak,
                         longestStreak |-> longestStreak,
                         tempStreak |-> tempStreak])
            ELSE streakLoop(sortedDays, i - 1, [acc EXCEPT !.tempStreak = 0])

\* GitHubContributionFetcher.calculateStreaks, on the array as sorted
calculateStreaks(sortedDays) ==
    LET r == streakLoop(sortedDays, Len(sortedDays),
                [currentStreak |-> 0, longestStreak |-> 0, tempStreak |-> 0])
    IN  [current |-> r.currentStreak, longest |-> r.longestStreak]

dayNames ==
    <<"Sunday", "Monday", "Tuesday", "Wednesday", "Thursday", "Friday", "Saturday">>

RECURSIVE addByDayOfWeek(_, _)
\* days.forEach(day => byDayOfWeek[day.weekday] += day.contributionCount)
addByDayOfWeek(byDayOfWeek, days) ==
    IF days = <<>> THEN byDayOfWeek
    ELSE LET day == Head(days)
         IN  addByDayOfWeek(
                [byDayOfWeek EXCEPT ![day.weekday + 1] = @ + day.contributionCount],
                Tail(days))

groupContributionsByPosition(days) ==
    [index \in 1..7 |->
        [dayOfWeek |-> index - 1,
         dayName |-> dayNames[index],
         totalContributions |->
            IF index <= Len(days) THEN days[index].contributionCount ELSE 0]]

\* GitHubContributionFetcher.groupContributionsByDayOfWeek (weekday in 0..6)
groupContributionsByDayOfWeek(days) ==
    LET byDayOfWeek == addByDayOfWeek([i \in 1..7 |-> 0], days)
    IN  [index \in 1..7 |->
            [dayOfWeek |-> index - 1,
             dayName |-> dayNames[index],
             totalContributions |-> byDayOfWeek[index]]]

\* day.date.substring(0, 7): the "YYYY-MM" of an ISO date, held as the pair
\* of the numbers its digits spell (ordinals below 0 are December 2023)
yearMonth(date) ==
    IF date < 0 THEN <<2023, 12>> ELSE <<2024, MonthOfDay(date) + 1>>

\* a.month.localeCompare(b.month) for two "YYYY-MM" strings: negative, zero
\* or positive as the fixed-width digit strings compare
localeCompare(a, b) ==
    IF a[1] # b[1] THEN a[1] - b[1] ELSE a[2] - b[2]

\* byMonth.get(month) || 0, on the Map held as its entries in insertion order
mapGet(byMonth, month) ==
    IF \E i \in 1..Len(byMonth) : byMonth[i].month = month
    THEN (CHOOSE e \in {byMonth[i] : i \in 1..Len(byMonth)} : e.month = month).totalContributions
    ELSE 0

\* byMonth.set(month, value): an existing key keeps its place
mapSet(byMonth, month, value) ==
    IF \E i \in 1..Len(byMonth) : byMonth[i].month = month
    THEN [i \in 1..Len(byMonth) |->
            IF byMonth[i].month = month
            THEN [month |-> month, totalContributions |-> value]
            ELSE byMonth[i]]
    ELSE Append(byMonth, [month |-> month, totalContributions |-> value])

RECURSIVE addByMonthLastWins(_, _)
addByMonthLastWins(byMonth, days) ==
    IF days = <<>> THEN byMonth
    ELSE LET day == Head(days)
         IN  addByMonthLastWins(
                mapSet(byMonth, yearMonth(day.date), day.contributionCount),
                Tail(days))

RECURSIVE addByMonth(_, _)
\* the days.forEach of groupContributionsByMonth
addByMonth(byMonth, days) ==
    IF days = <<>> THEN byMonth
    ELSE LET day == Head(days)
             month == yearMonth(day.date)
         IN  addByMonth(
                mapSet(byMonth, month, mapGet(byMonth, month) + day.contributionCount),
                Tail(days))

RECURSIVE InsertMonth(_, _)
\* an entry placed after every entry that does not compare greater than it
InsertMonth(e, s) ==
    IF s = <<>> THEN <<e>>
    ELSE IF localeCompare(Head(s).month, e.month) <= 0
         THEN <<Head(s)>> \o InsertMonth(e, Tail(s))
    ELSE <<e>> \o s

RECURSIVE sortMonths(_)
\* entries.sort((a, b) => a.month.localeCompare(b.month)), a stable sort
sortMonths(entries) ==
    IF entries = <<>> THEN <<>>
    ELSE InsertMonth(entries[Len(entries)],
                     sortMonths(SubSeq(entries, 1, Len(entries) - 1)))

\* GitHubContributionFetcher.groupContributionsByMonth
groupContributionsByMonth(days) == sortMonths(addByMonth(<<>>, days))

\* a JavaScript number that is an integer
Num(n) == [finite |-> TRUE, value |-> n]

\* the JavaScript number -Infinity
NegativeInfinity == [finite |-> FALSE, value |-> -1]

RECURSIVE MathMax(_)
\* Math.max(...values): -Infinity when called with no argument
MathMax(values) ==
    IF values = <<>> THEN NegativeInfinity
    ELSE LET rest == MathMax(Tail(values))
         IN  IF rest.finite /\ rest.value >= Head(values) THEN rest
             ELSE Num(Head(values))

\* contributionCalendar.weeks.flatMap(week => week.contributionDays)
flattenWeeks(weeks) == Concat([w \in 1..Len(weeks) |-> weeks[w].contributionDays])

statsTotalFromDays(cal, allDays) ==
    SumSeq([i \in 1..Len(allDays) |-> allDays[i].contributionCount])

\* stats.totalContributions: contributionCalendar.totalContributions
statsTotal(cal, allDays) == cal.totalContributions

\* GitHubContributionFetcher.processContributionDataForHeatmap.  The days
\* are flattened into a fresh array; calculateStreaks sorts that array in
\* place (days.sort), after maxContributions was computed and before the
\* grouping calls read it, and the same array is returned as allDays.
processContributionDataForHeatmap(cal) ==
    LET allDays == flattenWeeks(cal.weeks)
        sortedDays == sortDays(allDays)
    IN  [calendar |-> cal,
         allDays |-> sortedDays,
         stats |->
            [totalContributions |-> statsTotal(cal, allDays),
             averageContributions |->
                [num |-> cal.totalContributions, den |-> Len(allDays)],
             maxContributions |->
                MathMax([i \in 1..Len(allDays) |-> allDays[i].contributionCount]),
             streaks |-> calculateStreaks(sortedDays),
             contributionsByDay |-> groupContributionsByDayOfWeek(sortedDays),
             contributionsByMonth |-> groupContributionsByMonth(sortedDays)]]

\* createHeatmapData(processedData, username); username is <<>> when omitted
createHeatmapData(processedData, username) ==
    [weeks |-> processedData.calendar.weeks,
     totalContributions |-> processedData.stats.totalContributions,
     username |-> username]

----------------------------------------------------------------------------
(* The renderer (SVGHeatmapGenerator).                                     *)

\* SVGHeatmapGenerator.defaultOptions
defaultOptions ==
    [cellSize |-> 11,
     cellPadding |-> 2,
     fontSize |-> 9,
     fontFamily |-> "-apple-system, BlinkMacSystemFont, 'Segoe UI', Helvetica, Arial, sans-serif",
     colors |-> <<"#ebedf0", "#9be9a8", "#40c463", "#30a14e", "#216e39">>,
     showMonthLabels |-> TRUE,
     showDayLabels |-> TRUE,
     showTooltips |-> TRUE,
     showLegend |-> TRUE,
     showTitle |-> TRUE,
     showSummary |-> TRUE,
     borderRadius |-> 0,
     width |-> 0,
     height |-> 0,
     padding |-> [top |-> 10, right |-> 10, bottom |-> 20, left |-> 10]]

\* { ...this.defaultOptions, ...options }: a shallow merge, the caller's
\* keys win; an object is a function on the keys it has
mergeOptions(defaults, given) ==
    [k \in DOMAIN defaults \cup DOMAIN given |->
        IF k \in DOMAIN given THEN given[k] ELSE defaults[k]]

generatorAfterRenderMerged(gen, given) ==
    [gen EXCEPT !.defaultOptions = mergeOptions(@, given)]

\* the generator after a render call: generateSVG spreads this.defaultOptions
\* into a fresh object and assigns nothing to the instance
generatorAfterRender(gen, given) == gen

\* the data after a render call: the renderer reads weeks, totalContributions
\* and username and assigns to none of them
dataAfterRender(d) == d

\* new SVGHeatmapGenerator()
newGenerator == [defaultOptions |-> defaultOptions]

orDefaultAbsentZero(obj, key, fallback) ==
    IF key \in DOMAIN obj THEN obj[key] ELSE 0

\* obj.key || fallback, for a numeric key: an absent key and 0 are falsy
orDefault(obj, key, fallback) ==
    IF key \in DOMAIN obj /\ obj[key] # 0 THEN obj[key] ELSE fallback

\* value && ..., for an optional string held as <<>> or <<string>>
truthy(optString) == optString # <<>> /\ optString[1] # ""

\* the quotient num / den, kept exact
Quot(num, den) == [num |-> num, den |-> den]

calculateDimensionsNoTrim(d, opts) ==
    LET weeksCount == Len(d.weeks)
        graphWidth == weeksCount * (opts.cellSize + opts.cellPadding)
        graphHeight == daysCount * (opts.cellSize + opts.cellPadding)
        leftPadding == IF opts.showDayLabels THEN 30 ELSE orDefault(opts.padding, "left", 10)
        topPadding == IF opts.showMonthLabels THEN 20 ELSE orDefault(opts.padding, "top", 10)
        bottomPadding == orDefault(opts.padding, "bottom", 20)
        rightPadding == orDefault(opts.padding, "right", 10)
    IN  [graphWidth |-> graphWidth,
         graphHeight |-> graphHeight,
         totalWidth |-> leftPadding + graphWidth + rightPadding,
         totalHeight |-> topPadding + graphHeight + bottomPadding,
         leftPadding |-> leftPadding,
         topPadding |-> topPadding,
         rightPadding |-> rightPadding,
         bottomPadding |-> bottomPadding]

\* SVGHeatmapGenerator.calculateDimensions
calculateDimensions(d, opts) ==
    LET weeksCount == Len(d.weeks)
        graphWidth == weeksCount * (opts.cellSize + opts.cellPadding) - opts.cellPadding
        graphHeight == daysCount * (opts.cellSize + opts.cellPadding) - opts.cellPadding
        leftPadding == IF opts.showDayLabels THEN 30 ELSE orDefault(opts.padding, "left", 10)
        topPadding == IF opts.showMonthLabels THEN 20 ELSE orDefault(opts.padding, "top", 10)
        bottomPadding == orDefault(opts.padding, "bottom", 20)
        rightPadding == orDefault(opts.padding, "right", 10)
        totalWidth == leftPadding + graphWidth + rightPadding
        totalHeight == topPadding + graphHeight + bottomPadding
    IN  [graphWidth |-> graphWidth,
         graphHeight |-> graphHeight,
         totalWidth |-> totalWidth,
         totalHeight |-> totalHeight,
         leftPadding |-> leftPadding,
         topPadding |-> topPadding,
         rightPadding |-> rightPadding,
         bottomPadding |-> bottomPadding]

\* a <text> element; class "" is no class attribute, anchor "" no text-anchor
Text(class, x, y, anchor, content) ==
    [kind |-> "text", class |-> class, x |-> x, y |-> y,
     anchor |-> anchor, content |-> content]

\* the opening <svg width height xmlns> tag
generateOpen(dimensions) ==
    [kind |-> "svg", class |-> "",
     width |-> dimensions.totalWidth, height |-> dimensions.totalHeight]

generateStylesAlwaysHover(opts) ==
    [kind |-> "style", class |-> "",
     fontFamily |-> opts.fontFamily,
     fontSize |-> opts.fontSize,
     titleFontSize |-> opts.fontSize + 2,
     summaryFontSize |-> opts.fontSize - 1,
     hoverRule |-> TRUE]

\* SVGHeatmapGenerator.generateStyles: the <style> block
generateStyles(opts) ==
    [kind |-> "style", class |-> "",
     fontFamily |-> opts.fontFamily,
     fontSize |-> opts.fontSize,
     titleFontSize |-> opts.fontSize + 2,
     summaryFontSize |-> opts.fontSize - 1,
     hoverRule |-> opts.showTooltips]

\* SVGHeatmapGenerator.generateTitle
generateTitle(username, dimensions, opts) ==
    <<Text("title", Quot(dimensions.totalWidth, 2), 15, "middle",
           username \o "'s Contribution Graph")>>

generateSummaryNoTotal(totalContributions, dimensions, opts) ==
    <<Text("summary", dimensions.leftPadding, dimensions.totalHeight - 5, "",
           "contributions this year")>>

\* SVGHeatmapGenerator.generateSummary
generateSummary(totalContributions, dimensions, opts) ==
    LET x == dimensions.leftPadding
        y == dimensions.totalHeight - 5
    IN  <<Text("summary", x, y, "",
               DecStr(totalContributions) \o " contributions this year")>>

dayLabels == <<"", "Mon", "", "Wed", "", "Fri", "">>

\* SVGHeatmapGenerator.generateDayLabels; y holds cellSize / 2 exactly
generateDayLabels(leftPadding, topPadding, opts) ==
    LET label(index) ==
            IF dayLabels[index + 1] = "" THEN <<>>
            ELSE <<Text("day-label", leftPadding - 10,
                        Quot(2 * (topPadding + index * (opts.cellSize + opts.cellPadding) + 3)
                                + opts.cellSize, 2),
                        "end", dayLabels[index + 1])>>
    IN  Concat([i \in 1..7 |-> label(i - 1)])

monthNames ==
    <<"Jan", "Feb", "Mar", "Apr", "May", "Jun",
      "Jul", "Aug", "Sep", "Oct", "Nov", "Dec">>

RECURSIVE monthLabelLoopFromFirst(_, _, _, _, _, _)
monthLabelLoopFromFirst(weeks, weekIndex, lastMonth, leftPadding, topPadding, opts) ==
    IF weekIndex >= Len(weeks) THEN <<>>
    ELSE
        LET currentMonth == getMonth(weeks[weekIndex + 1].firstDay)
        IN  IF currentMonth # lastMonth
            THEN <<Text("month-label",
                        leftPadding + weekIndex * (opts.cellSize + opts.cellPadding),
                        topPadding - 5, "", monthNames[currentMonth + 1])>>
                 \o monthLabelLoopFromFirst(weeks, weekIndex + 1, currentMonth,
                                   leftPadding, topPadding, opts)
            ELSE monthLabelLoopFromFirst(weeks, weekIndex + 1, lastMonth,
                                leftPadding, topPadding, opts)

RECURSIVE monthLabelLoopTrackingWeeks(_, _, _, _, _, _)
monthLabelLoopTrackingWeeks(weeks, weekIndex, lastMonth, leftPadding, topPadding, opts) ==
    IF weekIndex >= Len(weeks) THEN <<>>
    ELSE
        LET currentMonth == getMonth(weeks[weekIndex + 1].firstDay)
        IN  (IF currentMonth # lastMonth /\ weekIndex > 0
             THEN <<Text("month-label",
                         leftPadding + weekIndex * (opts.cellSize + opts.cellPadding),
                         topPadding - 5, "", monthNames[currentMonth + 1])>>
             ELSE <<>>)
            \o monthLabelLoopTrackingWeeks(weeks, weekIndex + 1, currentMonth,
                                           leftPadding, topPadding, opts)

RECURSIVE monthLabelLoop(_, _, _, _, _, _)
\* the weeks.forEach of generateMonthLabels from week weekIndex (0-based) on
monthLabelLoop(weeks, weekIndex, lastMonth, leftPadding, topPadding, opts) ==
    IF weekIndex >= Len(weeks) THEN <<>>
    ELSE
        LET currentMonth == getMonth(weeks[weekIndex + 1].firstDay)
        IN  IF currentMonth # lastMonth /\ weekIndex > 0
            THEN LET x == leftPadding + weekIndex * (opts.cellSize + opts.cellPadding)
                 IN  <<Text("month-label", x, topPadding - 5, "",
                            monthNames[currentMonth + 1])>>
                     \o monthLabelLoop(weeks, weekIndex + 1, currentMonth,
                                       leftPadding, topPadding, opts)
            ELSE monthLabelLoop(weeks, weekIndex + 1, lastMonth,
                                leftPadding, topPadding, opts)

\* SVGHeatmapGenerator.generateMonthLabels
generateMonthLabels(weeks, leftPadding, topPadding, opts) ==
    monthLabelLoop(weeks, 0, -1, leftPadding, topPadding, opts)

\* SVGHeatmapGenerator.formatTooltip; the formatted date is kept as the
\* local calendar day that toLocaleDateString spells
formatTooltip(day) ==
    [contributionText |->
        IF day.contributionCount = 1 THEN "1 contribution"
        ELSE DecStr(day.contributionCount) \o " contributions",
     localDay |-> LocalDay(day.date)]

\* the rx/ry attributes: present only for a positive radius
borderRadiusAttr(opts) ==
    IF opts.borderRadius > 0 THEN <<opts.borderRadius>> ELSE <<>>

\* opts.colors[level] inside a template literal: an index past the end of
\* the array reads undefined, which the template spells "undefined"
colorAt(colors, level) ==
    IF level < Len(colors) THEN colors[level + 1] ELSE "undefined"

generateContributionSquaresByPosition(weeks, leftPadding, topPadding, opts) ==
    LET square(weekIndex, dayIndex, day) ==
            LET level == getContributionLevel(day.contributionCount)
            IN  [kind |-> "rect", class |-> "contribution-square",
                 x |-> leftPadding + weekIndex * (opts.cellSize + opts.cellPadding),
                 y |-> topPadding + dayIndex * (opts.cellSize + opts.cellPadding),
                 width |-> opts.cellSize, height |-> opts.cellSize,
                 radius |-> borderRadiusAttr(opts),
                 fill |-> colorAt(opts.colors, level),
                 dataDate |-> day.date,
                 dataCount |-> day.contributionCount,
                 dataLevel |-> level,
                 tooltip |-> IF opts.showTooltips THEN <<formatTooltip(day)>> ELSE <<>>]
        ofWeek(w) ==
            [i \in 1..Len(weeks[w].contributionDays) |->
                square(w - 1, i - 1, weeks[w].contributionDays[i])]
    IN  Concat([w \in 1..Len(weeks) |-> ofWeek(w)])

generateContributionSquaresFromOne(weeks, leftPadding, topPadding, opts) ==
    LET square(weekIndex, day) ==
            LET x == leftPadding + weekIndex * (opts.cellSize + opts.cellPadding)
                y == topPadding + day.weekday * (opts.cellSize + opts.cellPadding)
                level == getContributionLevel(day.contributionCount)
                color == colorAt(opts.colors, level)
            IN  [kind |-> "rect", class |-> "contribution-square",
                 x |-> x, y |-> y,
                 width |-> opts.cellSize, height |-> opts.cellSize,
                 radius |-> borderRadiusAttr(opts),
                 fill |-> color,
                 dataDate |-> day.date,
                 dataCount |-> day.contributionCount,
                 dataLevel |-> level,
                 tooltip |-> IF opts.showTooltips THEN <<formatTooltip(day)>> ELSE <<>>]
        ofWeek(w) ==
            [i \in 1..Len(weeks[w].contributionDays) |->
                square(w, weeks[w].contributionDays[i])]
    IN  Concat([w \in 1..Len(weeks) |-> ofWeek(w)])

\* SVGHeatmapGenerator.generateContributionSquares
generateContributionSquares(weeks, leftPadding, topPadding, opts) ==
    LET square(weekIndex, day) ==
            LET x == leftPadding + weekIndex * (opts.cellSize + opts.cellPadding)
                y == topPadding + day.weekday * (opts.cellSize + opts.cellPadding)
                level == getContributionLevel(day.contributionCount)
                color == colorAt(opts.colors, level)
            IN  [kind |-> "rect", class |-> "contribution-square",
                 x |-> x, y |-> y,
                 width |-> opts.cellSize, height |-> opts.cellSize,
                 radius |-> borderRadiusAttr(opts),
                 fill |-> color,
                 dataDate |-> day.date,
                 dataCount |-> day.contributionCount,
                 dataLevel |-> level,
                 tooltip |-> IF opts.showTooltips THEN <<formatTooltip(day)>> ELSE <<>>]
        ofWeek(w) ==
            [i \in 1..Len(weeks[w].contributionDays) |->
                square(w - 1, weeks[w].contributionDays[i])]
    IN  Concat([w \in 1..Len(weeks) |-> ofWeek(w)])

\* SVGHeatmapGenerator.generateLegend
generateLegend(totalWidth, totalHeight, opts) ==
    LET legendX == totalWidth - 150
        legendY == totalHeight - 15
        swatch(index) ==
            [kind |-> "rect", class |-> "",
             x |-> legendX + index * (opts.cellSize + 2),
             y |-> legendY - opts.cellSize,
             width |-> opts.cellSize, height |-> opts.cellSize,
             radius |-> borderRadiusAttr(opts),
             fill |-> opts.colors[index + 1]]
    IN  <<Text("legend-text", legendX - 10, legendY, "end", "Less")>>
        \o [i \in 1..Len(opts.colors) |-> swatch(i - 1)]
        \o <<Text("legend-text",
                  legendX + Len(opts.colors) * (opts.cellSize + 2) + 5,
                  legendY, "", "More")>>

generateSVGLegendFirst(d, given) ==
    LET opts == mergeOptions(generator.defaultOptions, given)
        dimensions == calculateDimensions(d, opts)
    IN  <<generateOpen(dimensions)>>
        \o <<generateStyles(opts)>>
        \o (IF truthy(d.username) /\ opts.showTitle
            THEN generateTitle(d.username[1], dimensions, opts) ELSE <<>>)
        \o (IF opts.showDayLabels
            THEN generateDayLabels(dimensions.leftPadding, dimensions.topPadding, opts)
            ELSE <<>>)
        \o (IF opts.showMonthLabels
            THEN generateMonthLabels(d.weeks, dimensions.leftPadding,
                                     dimensions.topPadding, opts)
            ELSE <<>>)
        \o (IF opts.showLegend
            THEN generateLegend(dimensions.totalWidth, dimensions.totalHeight, opts)
            ELSE <<>>)
        \o generateContributionSquares(d.weeks, dimensions.leftPadding,
                                       dimensions.topPadding, opts)
        \o (IF opts.showSummary
            THEN generateSummary(d.totalContributions, dimensions, opts) ELSE <<>>)
        \o <<[kind |-> "close", class |-> ""]>>

\* SVGHeatmapGenerator.generateSVG
generateSVG(d, given) ==
    LET opts == mergeOptions(generator.defaultOptions, given)
        dimensions == calculateDimensions(d, opts)
    IN  <<generateOpen(dimensions)>>
        \o <<generateStyles(opts)>>
        \o (IF truthy(d.username) /\ opts.showTitle
            THEN generateTitle(d.username[1], dimensions, opts) ELSE <<>>)
        \o (IF opts.showDayLabels
            THEN generateDayLabels(dimensions.leftPadding, dimensions.topPadding, opts)
            ELSE <<>>)
        \o (IF opts.showMonthLabels
            THEN generateMonthLabels(d.weeks, dimensions.leftPadding,
                                     dimensions.topPadding, opts)
            ELSE <<>>)
        \o generateContributionSquares(d.weeks, dimensions.leftPadding,
                                       dimensions.topPadding, opts)
        \o (IF opts.showLegend
            THEN generateLegend(dimensions.totalWidth, dimensions.totalHeight, opts)
            ELSE <<>>)
        \o (IF opts.showSummary
            THEN generateSummary(d.totalContributions, dimensions, opts) ELSE <<>>)
        \o <<[kind |-> "close", class |-> ""]>>

flagTruthy(components, flag) ==
    flag \in DOMAIN components /\ components[flag]

\* components.includeX !== false: an unset flag counts as set
notFalse(components, flag) ==
    ~(flag \in DOMAIN components /\ components[flag] = FALSE)

\* SVGHeatmapGenerator.generateModularSVG
generateModularSVG(d, components, given) ==
    LET opts == mergeOptions(generator.defaultOptions, given)
        dimensions == calculateDimensions(d, opts)
    IN  <<generateOpen(dimensions)>>
        \o <<generateStyles(opts)>>
        \o (IF notFalse(components, "includeTitle") /\ truthy(d.username) /\ opts.showTitle
            THEN generateTitle(d.username[1], dimensions, opts) ELSE <<>>)
        \o (IF notFalse(components, "includeDayLabels") /\ opts.showDayLabels
            THEN generateDayLabels(dimensions.leftPadding, dimensions.topPadding, opts)
            ELSE <<>>)
        \o (IF notFalse(components, "includeMonthLabels") /\ opts.showMonthLabels
            THEN generateMonthLabels(d.weeks, dimensions.leftPadding,
                                     dimensions.topPadding, opts)
            ELSE <<>>)
        \o (IF notFalse(components, "includeGrid")
            THEN generateContributionSquares(d.weeks, dimensions.leftPadding,
                                             dimensions.topPadding, opts)
            ELSE <<>>)
        \o (IF notFalse(components, "includeLegend") /\ opts.showLegend
            THEN generateLegend(dimensions.totalWidth, dimensions.totalHeight, opts)
            ELSE <<>>)
        \o (IF notFalse(components, "includeSummary") /\ opts.showSummary
            THEN generateSummary(d.totalContributions, dimensions, opts) ELSE <<>>)
        \o <<[kind |-> "close", class |-> ""]>>

\* the colorSchemes table of generateCustomColorHeatmap
colorSchemes ==
    [github |-> <<"#ebedf0", "#9be9a8", "#40c463", "#30a14e", "#216e39">>,
     green  |-> <<"#f0f9ff", "#c7f0c7", "#6cc04a", "#4a9e3d", "#2d5a27">>,
     blue   |-> <<"#f0f9ff", "#bfdbfe", "#60a5fa", "#3b82f6", "#1d4ed8">>,
     purple |-> <<"#faf5ff", "#e9d5ff", "#c084fc", "#a855f7", "#7c3aed">>,
     orange |-> <<"#fff7ed", "#fed7aa", "#fb923c", "#ea580c", "#c2410c">>]

schemeOptionsCallerWins(scheme, given) ==
    mergeOptions([colors |-> colorSchemes[scheme]], given)

\* { ...options, colors: colorSchemes[colorScheme] }
schemeOptions(scheme, given) ==
    mergeOptions(given, [colors |-> colorSchemes[scheme]])

\* SVGHeatmapGenerator.generateCustomColorHeatmap
generateCustomColorHeatmap(d, scheme, given) ==
    generateSVG(d, schemeOptions(scheme, given))

----------------------------------------------------------------------------
(* The banner presets (SVGHeatmapGenerator).  A text of the caller that    *)
(* the program splits or trims is held as the sequence of its pieces:      *)
(* words without white space, and the white-space characters " " and "\n". *)

\* name = fallback in a destructuring pattern: the default replaces an
\* absent (undefined) key only
withDefault(obj, key, fallback) ==
    IF key \in DOMAIN obj THEN obj[key] ELSE fallback

\* value || fallback for a string: the empty string is falsy
orString(obj, key, fallback) ==
    IF key \in DOMAIN obj /\ obj[key] # "" THEN obj[key] ELSE fallback

WhiteSpace == {" ", "\n"}

RECURSIVE trimStart(_)
trimStart(pieces) ==
    IF pieces # <<>> /\ Head(pieces) \in WhiteSpace THEN trimStart(Tail(pieces))
    ELSE pieces

RECURSIVE trimEnd(_)
trimEnd(pieces) ==
    IF pieces # <<>> /\ pieces[Len(pieces)] \in WhiteSpace
    THEN trimEnd(SubSeq(pieces, 1, Len(pieces) - 1))
    ELSE pieces

\* String.prototype.trim
trim(pieces) == trimEnd(trimStart(pieces))

RECURSIVE splitFrom(_, _)
\* the lines after the current one, `line` being the current line so far
splitFrom(pieces, line) ==
    IF pieces = <<>> THEN <<line>>
    ELSE IF Head(pieces) = "\n" THEN <<line>> \o splitFrom(Tail(pieces), <<>>)
    ELSE splitFrom(Tail(pieces), Append(line, Head(pieces)))

\* text.split('\n'): always at least one line
split(pieces) == splitFrom(pieces, <<>>)

\* a text element of a banner; opacity is <<>> when there is no attribute
BannerText(x, y, anchor, fontFamily, fontSize, fontWeight, fill, opacity, content) ==
    [kind |-> "text", class |-> "", x |-> x, y |-> y, anchor |-> anchor,
     fontFamily |-> fontFamily, fontSize |-> fontSize, fontWeight |-> fontWeight,
     fill |-> fill, opacity |-> opacity, content |-> content]

\* the font stack of the banners when no custom font is given
systemFontFamily ==
    "-apple-system, BlinkMacSystemFont, 'Segoe UI', Roboto, Arial, sans-serif"

\* SVGHeatmapGenerator.getFontFamily; customFont is <<>> when undefined
getFontFamily(customFont) ==
    IF customFont = <<>> THEN systemFontFamily
    ELSE LET fallback == orString(customFont[1], "fallback", "Arial, sans-serif")
         IN  "'" \o customFont[1].family \o "', " \o fallback

\* SVGHeatmapGenerator.getFontWeight: customFont?.weight || 'normal'
getFontWeight(customFont) ==
    IF customFont = <<>> THEN "normal"
    ELSE orString(customFont[1], "weight", "normal")

\* fonts.key, <<>> when undefined
fontOf(fonts, key) == IF key \in DOMAIN fonts THEN <<fonts[key]>> ELSE <<>>

\* font.url.replace(/&/g, '&amp;'), the url held as its pieces
escapeAmp(pieces) ==
    [i \in 1..Len(pieces) |-> IF pieces[i] = "&" THEN "&amp;" ELSE pieces[i]]

\* SVGHeatmapGenerator.generateFontDefinitions; a font weight is held as
\* the string the template spells
generateFontDefinitions(customFonts) ==
    IF Len(customFonts) = 0 THEN <<>>
    ELSE LET rule(font) ==
                IF "url" \in DOMAIN font /\ font.url # <<>>
                THEN [rule |-> "import", url |-> escapeAmp(font.url)]
                ELSE IF "localPath" \in DOMAIN font /\ font.localPath # ""
                THEN [rule |-> "font-face", family |-> font.family,
                      src |-> <<font.localPath>>,
                      format |-> <<orString(font, "format", "truetype")>>,
                      weight |-> orString(font, "weight", "normal"),
                      style |-> orString(font, "style", "normal")]
                ELSE [rule |-> "font-face", family |-> font.family,
                      src |-> <<>>, format |-> <<>>,
                      weight |-> orString(font, "weight", "normal"),
                      style |-> orString(font, "style", "normal")]
         IN  <<[kind |-> "defs", class |-> "",
                rules |-> [i \in 1..Len(customFonts) |-> rule(customFonts[i])]]>>

\* the themes table of generateLinkedInHeader
headerThemes(opts) ==
    [black |->
        [bg |-> orString(opts, "backgroundColor", "#000000"),
         text |-> orString(opts, "textColor", "#ffffff"),
         accent |-> orString(opts, "accentColor", "#ffffff"),
         colors |-> <<"#161b22", "#0d1117", "#21262d", "#30363d", "#8b949e">>],
     professional |->
        [bg |-> orString(opts, "backgroundColor", "#0a66c2"),
         text |-> orString(opts, "textColor", "#ffffff"),
         accent |-> orString(opts, "accentColor", "#ffffff"),
         colors |-> <<"#004182", "#0a66c2", "#378fe9", "#54a3ff", "#70b5f9">>],
     minimal |->
        [bg |-> orString(opts, "backgroundColor", "#f8f9fa"),
         text |-> orString(opts, "textColor", "#212529"),
         accent |-> orString(opts, "accentColor", "#6c757d"),
         colors |-> <<"#e9ecef", "#dee2e6", "#ced4da", "#adb5bd", "#6c757d">>],
     gradient |->
        [bg |-> orString(opts, "backgroundColor", "url(#gradient)"),
         text |-> orString(opts, "textColor", "#ffffff"),
         accent |-> orString(opts, "accentColor", "#ffffff"),
         colors |-> <<"#1a1a2e", "#16213e", "#0f3460", "#533483", "#e94560">>]]

bannerCellsByPosition(weeks, heatmapX, heatmapY2, cellSize, cellPadding, radius, colors) ==
    LET cell(weekIndex, dayIndex, day) ==
            LET level == getContributionLevel(day.contributionCount)
            IN  [kind |-> "rect", class |-> "",
                 x |-> heatmapX + weekIndex * (cellSize + cellPadding),
                 y |-> Quot(heatmapY2 + 2 * dayIndex * (cellSize + cellPadding), 2),
                 width |-> cellSize, height |-> cellSize,
                 radius |-> <<radius>>,
                 fill |-> colorAt(colors, level),
                 opacity |-> <<"0.9">>]
        ofWeek(w) ==
            [i \in 1..Len(weeks[w].contributionDays) |->
                cell(w - 1, i - 1, weeks[w].contributionDays[i])]
    IN  Concat([w \in 1..Len(weeks) |-> ofWeek(w)])

\* the cells of a banner: one rect per day, rounded, at 0.9 opacity
bannerCells(weeks, heatmapX, heatmapY2, cellSize, cellPadding, radius, colors) ==
    LET cell(weekIndex, day) ==
            LET level == getContributionLevel(day.contributionCount)
            IN  [kind |-> "rect", class |-> "",
                 x |-> heatmapX + weekIndex * (cellSize + cellPadding),
                 y |-> Quot(heatmapY2 + 2 * day.weekday * (cellSize + cellPadding), 2),
                 width |-> cellSize, height |-> cellSize,
                 radius |-> <<radius>>,
                 fill |-> colorAt(colors, level),
                 opacity |-> <<"0.9">>]
        ofWeek(w) ==
            [i \in 1..Len(weeks[w].contributionDays) |->
                cell(w - 1, weeks[w].contributionDays[i])]
    IN  Concat([w \in 1..Len(weeks) |-> ofWeek(w)])

\* a <line> element
Line(x1, y1, x2, y2, stroke, strokeWidth, opacity) ==
    [kind |-> "line", class |-> "", x1 |-> x1, y1 |-> y1, x2 |-> x2, y2 |-> y2,
     stroke |-> stroke, strokeWidth |-> strokeWidth, opacity |-> opacity]

generateLinkedInHeaderFitted(d, given) ==
    <<[kind |-> "svg", class |-> "",
       width |-> Len(d.weeks) * 9 + 680, height |-> 396]>>
    \o <<[kind |-> "close", class |-> ""]>>

\* SVGHeatmapGenerator.generateLinkedInHeader; headerY2 holds twice heatmapY,
\* (headerHeight - heatmapHeight) / 2 being a half-integer
generateLinkedInHeader(d, given) ==
    LET theme == withDefault(given, "theme", "black")
        includeProfile == withDefault(given, "includeProfile", TRUE)
        headerText == withDefault(given, "headerText",
                         DecStr(d.totalContributions) \o " contributions on GitHub")
        subText == withDefault(given, "subText",
                         "Building in public, one commit at a time")
        headerWidth == 1584
        headerHeight == 396
        currentTheme == headerThemes(given)[theme]
        heatmapCellSize == 8
        heatmapPadding == 1
        heatmapWidth == Len(d.weeks) * (heatmapCellSize + heatmapPadding)
        heatmapHeight == 7 * (heatmapCellSize + heatmapPadding)
        heatmapX == headerWidth - heatmapWidth - 60
        heatmapY2 == headerHeight - heatmapHeight
        contentX == 80
        contentY == headerHeight \div 2
    IN  <<[kind |-> "svg", class |-> "", width |-> headerWidth, height |-> headerHeight]>>
        \o (IF theme = "gradient"
            THEN <<[kind |-> "defs", class |-> "", rules |-> <<[rule |-> "linearGradient"]>>]>>
            ELSE <<>>)
        \o <<[kind |-> "rect", class |-> "", width |-> headerWidth,
              height |-> headerHeight, fill |-> currentTheme.bg]>>
        \o <<BannerText(contentX, contentY - 20, "", systemFontFamily, 36, "700",
                        currentTheme.text, <<>>, headerText)>>
        \o (IF subText # ""
            THEN <<BannerText(contentX, contentY + 20, "", systemFontFamily, 18, "400",
                              currentTheme.accent, <<"0.8">>, subText)>>
            ELSE <<>>)
        \o (IF includeProfile /\ truthy(d.username)
            THEN <<BannerText(contentX, contentY + 50, "", systemFontFamily, 16, "500",
                              currentTheme.accent, <<"0.9">>,
                              "github.com/" \o d.username[1])>>
            ELSE <<>>)
        \o bannerCells(d.weeks, heatmapX, heatmapY2, heatmapCellSize, heatmapPadding,
                       2, currentTheme.colors)
        \o (IF theme # "minimal"
            THEN <<Line(contentX, contentY + 80, contentX + 300, contentY + 80,
                        currentTheme.accent, 2, "0.3"),
                   Line(headerWidth - 400, 50, headerWidth - 50, 50,
                        currentTheme.accent, 1, "0.2"),
                   Line(headerWidth - 400, headerHeight - 50, headerWidth - 50,
                        headerHeight - 50, currentTheme.accent, 1, "0.2")>>
            ELSE <<>>)
        \o <<[kind |-> "close", class |-> ""]>>

\* the svgLogos.forEach of generateCustomLinkedInBanner: a grid of 6 columns
logoGrid(logos, bannerHeight) ==
    [i \in 1..Len(logos) |->
        LET index == i - 1
            col == index % 6
            row == index \div 6
            logoSpacing == 60
            rowSpacing == 44
            startX == 0
            startY == bannerHeight \div 3 - 32
        IN  [kind |-> "g", class |-> "",
             x |-> startX + col * logoSpacing + 64,
             y |-> startY + row * rowSpacing,
             content |-> logos[i]]]

\* SVGHeatmapGenerator.generateCustomLinkedInBanner (svg-heatmap.ts).  The
\* destructured headerText and subText are never read: the statements that
\* interpolated them are commented out, and the two sub-heading text
\* elements carry fixed wording
generateCustomLinkedInBanner(d, given) ==
    LET username == withDefault(given, "username", "rndmcodeguy")
        motivationalText == withDefault(given, "motivationalText",
            <<"Patience.", " ", "Perseverance.", " ", "Dedication">>)
        backgroundColor == withDefault(given, "backgroundColor", "#fff")
        headerTextColor == withDefault(given, "headerTextColor", "#000")
        subTextColor == withDefault(given, "subTextColor", "#000")
        subTextOpacity == withDefault(given, "subTextOpacity", "0.54")
        motivationalTextColor == withDefault(given, "motivationalTextColor", "#000")
        heatmapTheme == withDefault(given, "heatmapTheme", "dark")
        fonts == withDefault(given, "fonts", <<>>)
        customFonts == withDefault(given, "customFonts", <<>>)
        bannerWidth == 1584
        bannerHeight == 396
        heatmapCellSize == 12
        heatmapPadding == 2
        heatmapWidth == Len(d.weeks) * (heatmapCellSize + heatmapPadding)
        heatmapHeight == 7 * (heatmapCellSize + heatmapPadding)
        heatmapX == bannerWidth - heatmapWidth - 60
        heatmapY == 50
        heatmapColors ==
            IF heatmapTheme = "dark"
            THEN <<"#e4e4e7", "#a1a1aa", "#52525b", "#27272a", "#09090b">>
            ELSE <<"#161b22", "#0d1117", "#21262d", "#30363d", "#8b949e">>
        motivationalLines == split(motivationalText)
        motivationalX == bannerWidth - 60
        lineSpacing == 28
        motivationalStartY == bannerHeight - Len(motivationalLines) * lineSpacing - 20
    IN  <<[kind |-> "svg", class |-> "", width |-> bannerWidth, height |-> bannerHeight]>>
        \o generateFontDefinitions(customFonts)
        \o <<[kind |-> "rect", class |-> "", width |-> bannerWidth,
              height |-> bannerHeight, fill |-> backgroundColor]>>
        \o <<BannerText(60, 60, "", getFontFamily(fontOf(fonts, "username")), 18, "600",
                        headerTextColor, <<>>, "@" \o username \o "20")>>
        \o <<BannerText(bannerWidth \div 2, bannerHeight \div 2 + 30, "middle",
                        getFontFamily(fontOf(fonts, "subheaderText")), 28, "500",
                        subTextColor, <<subTextOpacity>>,
                        "Building refined user interfaces")>>
        \o <<BannerText(bannerWidth \div 2, bannerHeight \div 2 + 60, "middle",
                        getFontFamily(fontOf(fonts, "subheaderText")), 28, "500",
                        subTextColor, <<subTextOpacity>>,
                        "and the solid infrastructure that supports them")>>
        \o logoGrid(svgLogos, bannerHeight)
        \o [i \in 1..Len(motivationalLines) |->
                BannerText(motivationalX, motivationalStartY + (i - 1) * lineSpacing,
                           "end", getFontFamily(fontOf(fonts, "motivationalText")), 32,
                           getFontWeight(fontOf(fonts, "motivationalText")),
                           motivationalTextColor, <<>>, trim(motivationalLines[i]))]
        \o bannerCells(d.weeks, heatmapX, 2 * heatmapY, heatmapCellSize, heatmapPadding,
                       3, heatmapColors)
        \o <<Line(60, 75, 240, 75, headerTextColor, 2, "0.1")>>
        \o <<[kind |-> "rect", class |-> "", x |-> heatmapX - 20, y |-> heatmapY,
              width |-> 2, height |-> heatmapHeight,
              fill |-> headerTextColor, opacity |-> <<"0.1">>]>>
        \o <<[kind |-> "close", class |-> ""]>>

----------------------------------------------------------------------------
(* Files and raster conversion (saveSVGToFile, convertToPNG).  The file    *)
(* system and the sharp library are outside the program: the model keeps   *)
(* the calls made on them, and the environment says which call fails       *)
(* (environment.failAt) and what sharp reads from the SVG                  *)
(* (environment.metadata).  A scale is held as a quotient of denominator   *)
(* 2, so that 1 is Quot(2, 2) and 1.5 is Quot(3, 2).                       *)

\* a console.log / console.error entry
LogEntry(level, text) == [level |-> level, text |-> text]

\* how a call ended: returned or resolved, or threw or rejected with error
Completed == [kind |-> "completed"]

Failed(error) == [kind |-> "failed", error |-> error]

\* the error a failing step throws: require of a package that is not
\* installed throws with code MODULE_NOT_FOUND
errorOf(step, environment) ==
    [step |-> step,
     code |-> IF step = "require-sharp" /\ environment.sharp = "missing"
              THEN "MODULE_NOT_FOUND" ELSE "OTHER"]

\* the steps of a call up to the first one the environment fails, that one
\* included, and the error it throws (<<>> when none fails)
runSteps(steps, environment) ==
    LET failing == {i \in 1..Len(steps) : steps[i].op = environment.failAt}
    IN  IF failing = {}
        THEN [calls |-> steps, error |-> <<>>]
        ELSE LET first == CHOOSE i \in failing : \A j \in failing : i <= j
             IN  [calls |-> SubSeq(steps, 1, first),
                  error |-> <<errorOf(steps[first].op, environment)>>]

\* SVGHeatmapGenerator.saveSVGToFile
saveSVGToFile(markup, filename, environment) ==
    LET run == runSteps(<<[op |-> "require-fs"],
                          [op |-> "writeFileSync", file |-> filename, content |-> markup]>>,
                        environment)
    IN  IF run.error = <<>>
        THEN [calls |-> run.calls,
              log |-> <<LogEntry("log", "SVG heatmap saved to " \o filename)>>,
              outcome |-> Completed]
        ELSE [calls |-> run.calls,
              log |-> <<LogEntry("error", "Error saving SVG file:")>>,
              outcome |-> Completed]

\* value && ... for an optional number: absent and 0 are falsy
truthyNumber(obj, key) == key \in DOMAIN obj /\ obj[key] # 0

\* Math.round(n * scale) for n >= 0 and a scale num/den >= 0: halves go up
roundScaled(n, scale) == (2 * n * scale.num + scale.den) \div (2 * scale.den)

resizeStepsScaleFirst(opts, environment) ==
    LET scale == withDefault(opts, "scale", Quot(2, 2))
    IN  IF scale # Quot(2, 2)
        THEN <<[op |-> "metadata"],
               [op |-> "resize",
                width |-> roundScaled(orDefault(environment.metadata, "width", 1584), scale),
                height |-> roundScaled(orDefault(environment.metadata, "height", 396), scale)]>>
        ELSE IF truthyNumber(opts, "width") /\ truthyNumber(opts, "height")
        THEN <<[op |-> "resize", width |-> opts.width, height |-> opts.height]>>
        ELSE <<>>

\* the resize step of convertToPNG: the calls made on the sharp instance
\* before png()
resizeSteps(opts, environment) ==
    LET scale == withDefault(opts, "scale", Quot(2, 2))
    IN  IF truthyNumber(opts, "width") /\ truthyNumber(opts, "height")
        THEN <<[op |-> "resize", width |-> opts.width, height |-> opts.height]>>
        ELSE IF scale # Quot(2, 2)
        THEN LET metadata == environment.metadata
                 scaledWidth == roundScaled(orDefault(metadata, "width", 1584), scale)
                 scaledHeight == roundScaled(orDefault(metadata, "height", 396), scale)
             IN  <<[op |-> "metadata"],
                   [op |-> "resize", width |-> scaledWidth, height |-> scaledHeight]>>
        ELSE <<>>

\* the calls convertToPNG makes when nothing fails
convertSteps(svgFilename, pngFilename, opts, environment) ==
    <<[op |-> "require-sharp"],
      [op |-> "require-fs"],
      [op |-> "readFileSync", file |-> svgFilename],
      [op |-> "sharp"]>>
    \o resizeSteps(opts, environment)
    \o <<[op |-> "png", quality |-> withDefault(opts, "quality", 100),
          compressionLevel |-> 1, adaptiveFiltering |-> TRUE, palette |-> FALSE],
         [op |-> "toFile", file |-> pngFilename]>>

convertToPNGRethrowing(svgFilename, pngFilename, opts, environment) ==
    LET run == runSteps(convertSteps(svgFilename, pngFilename, opts, environment),
                        environment)
    IN  IF run.error = <<>>
        THEN [calls |-> run.calls,
              log |-> <<LogEntry("log", "PNG version created: " \o pngFilename)>>,
              outcome |-> Completed]
        ELSE IF run.error[1].code = "MODULE_NOT_FOUND"
        THEN [calls |-> run.calls,
              log |-> <<LogEntry("log", "Sharp not installed - PNG conversion skipped. Install with: bun add sharp")>>,
              outcome |-> Completed]
        ELSE [calls |-> run.calls,
              log |-> <<LogEntry("error", "Error converting to PNG:")>>,
              outcome |-> Failed(run.error[1])]

\* SVGHeatmapGenerator.convertToPNG, up to the settlement of its promise;
\* opts is the options argument, <<>> when it is undefined or {}
convertToPNG(svgFilename, pngFilename, opts, environment) ==
    LET run == runSteps(convertSteps(svgFilename, pngFilename, opts, environment),
                        environment)
    IN  IF run.error = <<>>
        THEN [calls |-> run.calls,
              log |-> <<LogEntry("log", "PNG version created: " \o pngFilename)>>,
              outcome |-> Completed]
        ELSE IF run.error[1].code = "MODULE_NOT_FOUND"
        THEN [calls |-> run.calls,
              log |-> <<LogEntry("log", "Sharp not installed - PNG conversion skipped. Install with: bun add sharp")>>,
              outcome |-> Completed]
        ELSE [calls |-> run.calls,
              log |-> <<LogEntry("error", "Error converting to PNG:")>>,
              outcome |-> Completed]

\* SVGHeatmapGenerator.convertToHighQualityPNG; scale is <<>> when omitted
convertToHighQualityPNG(svgFilename, pngFilename, scale, environment) ==
    convertToPNG(svgFilename, pngFilename,
                 [quality |-> 100,
                  scale |-> IF scale = <<>> THEN Quot(4, 2) ELSE scale[1]],
                 environment)

----------------------------------------------------------------------------
(* The data-source client and the preset script                            *)
(* (fetchContributionData, createMyCustomLinkedInBanner).  The client is   *)
(* outside the program: the environment says what its request settles      *)
(* with.  An error message is held as the sequence of its pieces.          *)

\* message.includes(needle), for a needle that is one of the pieces
includes(message, needle) == \E i \in 1..Len(message) : message[i] = needle

\* a settled promise
Resolved(value) == [kind |-> "resolved", value |-> value]

Rejected(error) == [kind |-> "rejected", error |-> error]

fetchContributionDataWrapping(response) ==
    IF response.kind = "data"
    THEN [log |-> <<>>, result |-> Resolved(response.calendar)]
    ELSE [log |-> <<LogEntry("error", "Error fetching contribution data:")>>,
          result |-> Rejected([isError |-> TRUE,
                               message |-> <<"Failed to fetch contribution data">>])]

\* GitHubContributionFetcher.fetchContributionData once the request has
\* settled with `response`: the try block returns the data, the catch block
\* logs and rethrows what it caught
fetchContributionData(response) ==
    IF response.kind = "data"
    THEN [log |-> <<>>, result |-> Resolved(response.calendar)]
    ELSE [log |-> <<LogEntry("error", "Error fetching contribution data:")>>,
          result |-> Rejected(response.error)]

\* the catch block of createMyCustomLinkedInBanner: what it prints
scriptCatch(error) ==
    <<LogEntry("error", "Error creating banner:")>>
    \o (IF error.isError
        THEN IF includes(error.message, "Bad credentials")
             THEN <<LogEntry("error", "Set your GitHub token in .env file"),
                    LogEntry("error", "Get token from: https://github.com/settings/tokens")>>
             ELSE IF includes(error.message, "Could not resolve to a User")
             THEN <<LogEntry("error", "GitHub username not found")>>
             ELSE <<>>
        ELSE <<>>)

\* the options createMyCustomLinkedInBanner passes to the banner preset
scriptBannerOptions ==
    [username |-> "rndmcodeguy",
     headerText |-> "Software Engineer",
     subText |-> "Building refined user interfaces and the solid infrastructure that supports them",
     motivationalText |-> <<"Patience", "\n", "Perseverance", "\n", "Dedication">>,
     backgroundColor |-> "#fff",
     headerTextColor |-> "#000",
     subTextColor |-> "#000",
     subTextOpacity |-> "0.54",
     motivationalTextColor |-> "#000",
     heatmapTheme |-> "dark",
     fonts |->
        [username |-> [family |-> "JetBrains Mono",
                       fallback |-> "Consolas, Monaco, monospace"],
         headerText |-> [family |-> "Urbanist",
                         fallback |-> "-apple-system, BlinkMacSystemFont, sans-serif"],
         subheaderText |-> [family |-> "Urbanist", weight |-> "600",
                            fallback |-> "-apple-system, BlinkMacSystemFont, sans-serif"],
         motivationalText |-> [family |-> "Alumni Sans Pinstripe", weight |-> "900",
                               fallback |-> "-apple-system, BlinkMacSystemFont, sans-serif"]],
     customFonts |->
        <<[family |-> "JetBrains Mono",
           url |-> <<"https://fonts.googleapis.com/css2?family=JetBrains+Mono:wght@400;500", "&", "display=swap">>],
          [family |-> "Urbanist",
           url |-> <<"https://fonts.googleapis.com/css2?family=Urbanist:ital,wght@0,100..900;1,100..900", "&", "display=swap">>],
          [family |-> "Barlow",
           url |-> <<"https://fonts.googleapis.com/css2?family=Barlow:ital,wght@0,100;1,900", "&", "display=swap">>],
          [family |-> "Alumni Sans Pinstripe",
           url |-> <<"https://fonts.googleapis.com/css2?family=Alumni+Sans+Pinstripe:ital@0;1", "&", "display=swap">>]>>]

\* the three conversions of the script, in order: file name and arguments
scriptConversions ==
    <<[file |-> "rndmcodeguy-linkedin-banner.png", hq |-> FALSE, opts |-> <<>>],
      [file |-> "rndmcodeguy-linkedin-banner-hq.png", hq |-> TRUE, opts |-> <<>>],
      [file |-> "rndmcodeguy-linkedin-banner-ultra.png", hq |-> FALSE,
       opts |-> [quality |-> 100, scale |-> Quot(6, 2)]]>>

----------------------------------------------------------------------------
(* The LinkedIn script (linkedin-heatmap.ts: createLinkedInHeatmap,        *)
(* convertSvgToPng).  A file name is held as the sequence of its pieces,   *)
(* the extension being one piece.  The environment says whether sharp is   *)
(* installed, which conversions fail in sharp (environment.sharpFails) and *)
(* whether the file system refuses writes (environment.writeFails).        *)

RECURSIVE joinPieces(_)
\* the string a sequence of pieces spells
joinPieces(pieces) ==
    IF pieces = <<>> THEN "" ELSE Head(pieces) \o joinPieces(Tail(pieces))

\* String.replace(from, to) for a `from` that is one of the pieces: the
\* first occurrence is replaced
replaceFirst(pieces, from, to) ==
    LET hits == {i \in 1..Len(pieces) : pieces[i] = from}
    IN  IF hits = {} THEN pieces
        ELSE LET first == CHOOSE i \in hits : \A j \in hits : i <= j
             IN  [pieces EXCEPT ![first] = to]

\* convertSvgToPng, up to the settlement of its promise: the try block runs
\* sharp; the catch block logs and writes the SVG under the .svg name, and
\* what that write throws leaves the function
convertSvgToPng(svgContent, filename, width, height, environment) ==
    LET attempt == runSteps(<<[op |-> "require-sharp"],
                             [op |-> "Buffer.from", content |-> svgContent],
                             [op |-> "sharp"],
                             [op |-> "resize", width |-> width, height |-> height],
                             [op |-> "png", quality |-> 100],
                             [op |-> "toFile", file |-> joinPieces(filename)]>>,
                           environment)
        fallback == runSteps(<<[op |-> "require-fs"],
                              [op |-> "writeFileSync",
                               file |-> joinPieces(replaceFirst(filename, ".png", ".svg")),
                               content |-> svgContent]>>,
                            [environment EXCEPT
                                !.failAt = IF environment.writeFails
                                           THEN "writeFileSync" ELSE "none"])
        notice == LogEntry("log", "Sharp not available. SVG saved instead. Install sharp for PNG: bun add sharp")
    IN  IF attempt.error = <<>>
        THEN [calls |-> attempt.calls,
              log |-> <<LogEntry("log", "PNG saved: " \o joinPieces(filename))>>,
              outcome |-> Completed]
        ELSE IF fallback.error = <<>>
        THEN [calls |-> attempt.calls \o fallback.calls,
              log |-> <<notice>>,
              outcome |-> Completed]
        ELSE [calls |-> attempt.calls \o fallback.calls,
              log |-> <<notice>>,
              outcome |-> Failed(fallback.error[1])]

\* the file stems of createLinkedInHeatmap, in the order of its statements
linkedInStems ==
    <<"rndmcodeguy20-custom-linkedin-banner", "rndmcodeguy20-linkedin-header",
      "rndmcodeguy20-professional-header", "rndmcodeguy20-minimal-header">>

\* the four markups createLinkedInHeatmap generates, in order
linkedInMarkups(d) ==
    <<generateCustomLinkedInBanner(d,
        [username |-> "rndmcodeguy",
         headerText |-> "Software engineer",
         subText |-> "Building refined user interfaces and the solid infrastructure that supports them",
         motivationalText |-> <<"Patience.", " ", "Perseverance.", " ", "Dedication">>,
         backgroundColor |-> "#fff",
         headerTextColor |-> "#000",
         subTextColor |-> "#000",
         subTextOpacity |-> "0.54",
         motivationalTextColor |-> "#000"]),
      generateLinkedInHeader(d,
        [theme |-> "black", includeProfile |-> TRUE,
         headerText |-> DecStr(d.totalContributions) \o " contributions on GitHub",
         subText |-> "Building in public, one commit at a time"]),
      generateLinkedInHeader(d,
        [theme |-> "professional", includeProfile |-> TRUE,
         headerText |-> "Software Developer - " \o DecStr(d.totalContributions)
                            \o " GitHub contributions",
         subText |-> "Passionate about clean code and continuous learning"]),
      generateLinkedInHeader(d,
        [theme |-> "minimal", includeProfile |-> FALSE,
         headerText |-> DecStr(d.totalContributions) \o " contributions this year",
         subText |-> ""])>>

\* the environment of one saveSVGToFile call of the script
saveEnvOf(environment) ==
    [failAt |-> IF environment.writeFails THEN "writeFileSync" ELSE "none",
     sharp |-> environment.sharp, metadata |-> <<>>]

\* the environment of the n-th convertSvgToPng call of the script
convertEnvOf(environment, n) ==
    [failAt |-> IF environment.sharp = "missing" THEN "require-sharp"
                ELSE IF n \in environment.sharpFails THEN "toFile" ELSE "none",
     sharp |-> environment.sharp, metadata |-> <<>>,
     writeFails |-> environment.writeFails]

\* the catch block of createLinkedInHeatmap: what it prints
linkedInCatch(error) ==
    <<LogEntry("error", "Error:")>>
    \o (IF error.isError
        THEN IF includes(error.message, "Bad credentials")
             THEN <<LogEntry("error", "Please set your GitHub token in .env file")>>
             ELSE IF includes(error.message, "Could not resolve to a User")
             THEN <<LogEntry("error", "Username not found. Please check the username.")>>
             ELSE <<>>
        ELSE <<>>)

----------------------------------------------------------------------------
(* Repository activity (fetchRepositoryActivity).  The requests of the     *)
(* repositories run concurrently: all are sent when the listing arrives,   *)
(* and each settles on its own.  The environment gives the listing (or the *)
(* error it fails with) and what each repository's request settles with:   *)
(* "data", "nodata" (a response without statistics) or "fail".             *)

\* the entry of a repository: its metadata and its commit activity
repoEntry(repo, commitActivity) ==
    [name |-> repo.name, fullName |-> repo.full_name, description |-> repo.description,
     language |-> repo.language, stargazersCount |-> repo.stargazers_count,
     forksCount |-> repo.forks_count, updatedAt |-> repo.updated_at,
     commitActivity |-> commitActivity]

\* the callback of repos.map once the repository's request has settled: the
\* entry it returns and what it prints
repoCallback(repo, response) ==
    IF response.kind = "fail"
    THEN [entry |-> repoEntry(repo, <<>>),
          log |-> <<LogEntry("warn", "Could not fetch activity for " \o repo.name \o ":")>>]
    ELSE [entry |-> repoEntry(repo, IF response.kind = "data" THEN response.data ELSE <<>>),
          log |-> <<>>]

promiseAllByCompletion(results, index, value) ==
    LET free == {i \in 1..Len(results) : results[i] = <<>>}
        first == CHOOSE i \in free : \A j \in free : i <= j
    IN  [results EXCEPT ![first] = <<value>>]

\* Promise.all: the promise of position `index` fulfils with value; the
\* results keep the positions of the promises
promiseAll(results, index, value) == [results EXCEPT ![index] = <<value>>]

----------------------------------------------------------------------------
(* Inputs.                                                                 *)

\* the weekday the data source reports for a date: 2024-01-01 is a Monday
WeekdayOf(date) == (date + 1) % 7

\* ContributionCalendar
Calendar(total, weeks) == [totalContributions |-> total, weeks |-> weeks]

SumCounts(days) == SumSeq([i \in 1..Len(days) |-> days[i].contributionCount])

\* a day list cut into at most two weeks, the first of `cut` days
SplitWeeks(days, cut) ==
    IF days = <<>> THEN <<>>
    ELSE IF cut >= Len(days) THEN <<Week(days[1].date, days)>>
    ELSE <<Week(days[1].date, SubSeq(days, 1, cut)),
           Week(days[cut + 1].date, SubSeq(days, cut + 1, Len(days)))>>

\* days whose dates and counts are free (gaps, repeats, any order)
FreeDays == {Day(date, count, WeekdayOf(date)) : date \in 0..MaxDate, count \in 0..MaxCount}

\* the calendar holds up to MaxDays free days, cut into weeks; the supplied
\* total agrees with the days or, for a calendar of one week, exceeds their
\* sum by one
FreeCalendar ==
    \E k \in 0..MaxDays : \E days \in [1..k -> FreeDays] :
        \E cut \in (IF k = 0 THEN {0} ELSE 1..k) :
            \E skew \in (IF cut = k THEN {0, 1} ELSE {0}) :
                calendar = Calendar(SumCounts(days) + skew, SplitWeeks(days, cut))

\* the calendar is one week of consecutive dates whose weekday fields are free
WeekdayCalendar ==
    \E k \in 1..(MaxDays - 1) :
        \E cs \in [1..k -> 0..MaxCount], wd \in [1..k -> 0..6] :
            LET days == [i \in 1..k |-> Day(i - 1, cs[i], wd[i])]
            IN  calendar = Calendar(SumCounts(days), <<Week(0, days)>>)

\* the calendar is one week of up to MaxDays days around the turn of the
\* year (2023-12-30 .. 2024-01-01), in any order
MonthCalendar ==
    \E k \in 1..MaxDays :
        \E ds \in [1..k -> (-2)..0], cs \in [1..k -> 0..MaxCount] :
            LET days == [i \in 1..k |-> Day(ds[i], cs[i], WeekdayOf(ds[i]))]
            IN  calendar = Calendar(SumCounts(days), <<Week(ds[1], days)>>)

\* spec section 8: one week, weekdays 0..6, counts 0,1,4,7,10,2,0
ScenarioWeekCounts == <<0, 1, 4, 7, 10, 2, 0>>

ScenarioWeek ==
    Calendar(24, <<Week(6, [i \in 1..7 |-> Day(5 + i, ScenarioWeekCounts[i], i - 1)])>>)

\* spec section 8: counts 5, 3, 0 on three consecutive dates
ScenarioStreakBroken ==
    Calendar(8, <<Week(6, <<Day(6, 5, 0), Day(7, 3, 1), Day(8, 0, 2)>>)>>)

\* spec section 8: counts 2, 4 on two consecutive dates
ScenarioStreakTwo ==
    Calendar(6, <<Week(6, <<Day(6, 2, 0), Day(7, 4, 1)>>)>>)

\* a week that holds no day
ScenarioEmptyWeek == Calendar(0, <<Week(6, <<>>)>>)

ScenarioCalendars ==
    {ScenarioWeek, ScenarioStreakBroken, ScenarioStreakTwo, ScenarioEmptyWeek}

\* HeatmapData; username is <<>> when the field is absent
HeatmapData(weeks, total, username) ==
    [weeks |-> weeks, totalContributions |-> total, username |-> username]

\* an object with the one key `key`, or without it when opt is <<>>
Field(key, opt) == [k \in (IF opt = <<>> THEN {} ELSE {key}) |-> opt[1]]

Usernames == {<<>>, <<"">>, <<"octocat">>}

\* n weeks without days starting on consecutive Sundays, the first 2023-12-31
SundayWeeks(n) == [w \in 1..n |-> Week(7 * (w - 1) - 1, <<>>)]

\* first days around month boundaries: Jan 25, Feb 1, Mar 1
FirstDays == {24, 31, 60}

\* spec section 8: weeks 0..3 start in January, week 4 in February
ScenarioJanFeb == [w \in 1..5 |-> Week(7 * w - 1, <<>>)]

\* month labels: weeks of free first days
LabelInput ==
    \E n \in 0..MaxWeeks : \E fd \in [1..n -> FirstDays] :
        /\ data = HeatmapData([w \in 1..n |-> Week(fd[w], <<>>)], 0, <<"octocat">>)
        /\ options \in {<<>>, [showMonthLabels |-> FALSE], [showDayLabels |-> FALSE]}

\* spec section 8: the January to February calendar
LabelScenarioInput ==
    /\ data = HeatmapData(ScenarioJanFeb, 0, <<"octocat">>)
    /\ options \in {<<>>, [showMonthLabels |-> FALSE], [showDayLabels |-> FALSE]}

OptSizes == {<<>>} \cup {<<n>> : n \in 1..MaxCellSize}

OptPaddings == {<<>>} \cup {<<n>> : n \in 0..MaxCellSize}

OptFalse == {<<>>, <<FALSE>>}

Paddings ==
    {<<>>,
     <<[left |-> 7]>>,
     <<[top |-> 3, right |-> 4, bottom |-> 5, left |-> 6]>>,
     <<[top |-> 0, right |-> 0, bottom |-> 0, left |-> 0]>>}

\* layout: the number of weeks and the geometry options are free
DimensionInput ==
    \E n \in (0..MaxWeeks) \cup {53}, cs \in OptSizes, cp \in OptPaddings,
       dl \in OptFalse, ml \in OptFalse, pad \in Paddings :
        /\ data = HeatmapData(SundayWeeks(n), 0, <<>>)
        /\ options = Field("cellSize", cs) @@ Field("cellPadding", cp)
                        @@ Field("showDayLabels", dl) @@ Field("showMonthLabels", ml)
                        @@ Field("padding", pad)

\* a padding object with some of its four fields, or none of them
PartialPaddings ==
    {Field("top", <<>>),
     [top |-> 3],
     [right |-> 4],
     [bottom |-> 5],
     [right |-> 4, bottom |-> 5],
     [top |-> 3, left |-> 6],
     [top |-> 3, right |-> 4, left |-> 6]}

\* option merge: the caller supplies a part of the padding next to other
\* top-level options
MergeInput ==
    \E n \in {0, 2}, cs \in {<<>>, <<2>>}, cp \in {<<>>, <<1>>},
       dl \in OptFalse, ml \in OptFalse, pad \in PartialPaddings :
        /\ data = HeatmapData(SundayWeeks(n), 0, <<>>)
        /\ options = Field("cellSize", cs) @@ Field("cellPadding", cp)
                        @@ Field("showDayLabels", dl) @@ Field("showMonthLabels", ml)
                        @@ Field("padding", <<pad>>)

CellWeeks ==
    {<<Week(6, [i \in 1..7 |-> Day(5 + i, ScenarioWeekCounts[i], i - 1)])>>,
     <<Week(29, <<Day(31, 1, 4), Day(30, 12, 3)>>), Week(36, <<Day(36, 0, 0)>>)>>}

\* components: the toggles, the total and the username are free
ComponentInput ==
    \E weeks \in CellWeeks, total \in {0, 7, 1247}, username \in Usernames,
       ti \in OptFalse, dl \in OptFalse, ml \in OptFalse, le \in OptFalse,
       su \in {<<>>, <<FALSE>>, <<TRUE>>}, tt \in OptFalse, br \in {<<>>, <<2>>} :
        /\ data = HeatmapData(weeks, total, username)
        /\ options = Field("showTitle", ti) @@ Field("showDayLabels", dl)
                        @@ Field("showMonthLabels", ml) @@ Field("showLegend", le)
                        @@ Field("showSummary", su) @@ Field("showTooltips", tt)
                        @@ Field("borderRadius", br)

\* weeks with days: the weekday field may differ from the day's position
\* in its week, and two days of a week may carry the same weekday
SquareWeeks ==
    CellWeeks \cup {<<Week(0, <<Day(0, 4, 6), Day(1, 0, 6)>>)>>, <<>>,
                    <<Week(0, <<Day(0, 1, 0)>>), Week(7, <<Day(7, 2, 0), Day(13, 5, 6)>>)>>}

\* the caller's colors: absent, five entries, or only two
Palettes ==
    {<<>>,
     <<<<"#f0f9ff", "#bfdbfe", "#60a5fa", "#3b82f6", "#1d4ed8">>>>,
     <<<<"#000000", "#ffffff">>>>}

\* cells: the days, the geometry options and the palette are free
SquareInput ==
    \E weeks \in SquareWeeks, cs \in OptSizes, cp \in OptPaddings,
       dl \in OptFalse, ml \in OptFalse, pad \in Paddings, col \in Palettes :
        /\ data = HeatmapData(weeks, 0, <<>>)
        /\ options = Field("cellSize", cs) @@ Field("cellPadding", cp)
                        @@ Field("showDayLabels", dl) @@ Field("showMonthLabels", ml)
                        @@ Field("padding", pad) @@ Field("colors", col)

\* the weeks handed to a banner preset: none, weeks with days, many weeks
BannerWeeks ==
    {<<>>, SundayWeeks(MaxWeeks), SundayWeeks(53)} \cup CellWeeks

\* an optional string option: absent, or the one value given
OptString(value) == {<<>>, <<value>>}

\* LinkedInHeaderOptions
HeaderInput ==
    \E weeks \in BannerWeeks, total \in {0, 1247}, username \in Usernames,
       th \in {<<>>, <<"black">>, <<"professional">>, <<"minimal">>, <<"gradient">>},
       ip \in OptFalse, ht \in OptString("Open source, daily"),
       st \in {<<>>, <<"">>, <<"Shipping since 2015">>},
       bg \in OptString("#123456") :
        /\ data = HeatmapData(weeks, total, username)
        /\ options = Field("theme", th) @@ Field("includeProfile", ip)
                        @@ Field("headerText", ht) @@ Field("subText", st)
                        @@ Field("backgroundColor", bg)

\* FontConfig values
FontConfigs ==
    {<<>>,
     <<[motivationalText |-> [family |-> "Inter", weight |-> "700"]]>>,
     <<[username |-> [family |-> "Fira Code", fallback |-> "monospace"]]>>}

\* CustomFont lists
CustomFontLists ==
    {<<>>,
     <<<<>>>>,
     <<<<[family |-> "Inter", url |-> <<"https://fonts.example/css2?family=Inter", "&", "display=swap">>]>>>>,
     <<<<[family |-> "Fira Code", localPath |-> "./fonts/FiraCode.ttf"],
         [family |-> "Inter"]>>>>}

\* motivationalText values: one line, and two lines with white space around
MotivationalTexts ==
    {<<>>,
     <<<<"Keep", " ", "going">>>>,
     <<<<" ", "Ship", " ", "\n", " ", "daily", " ">>>>}

\* CustomLinkedInBannerOptions
CustomBannerInput ==
    \E weeks \in BannerWeeks, un \in OptString("octocat"),
       ht \in OptString("Staff engineer"), st \in OptString("Shipping since 2015"),
       mt \in MotivationalTexts, th \in {<<>>, <<"dark">>, <<"light">>},
       fo \in FontConfigs, cf \in CustomFontLists :
        /\ data = HeatmapData(weeks, 1247, <<>>)
        /\ options = Field("username", un) @@ Field("headerText", ht)
                        @@ Field("subText", st) @@ Field("motivationalText", mt)
                        @@ Field("heatmapTheme", th) @@ Field("fonts", fo)
                        @@ Field("customFonts", cf)

\* the logo list the module was loaded with: an opaque markup per logo
LogoLists ==
    {[i \in 1..n |-> "<svg logo " \o DecStr(i) \o ">"] : n \in {0, MaxLogos, 7}}

\* colour schemes: the scheme, the caller's own colors and other options
SchemeInput ==
    \E weeks \in CellWeeks, scheme \in DOMAIN colorSchemes, col \in Palettes,
       cs \in OptSizes, le \in OptFalse, dl \in OptFalse, br \in {<<>>, <<2>>} :
        /\ data = HeatmapData(weeks, 7, <<"octocat">>)
        /\ colorScheme = scheme
        /\ options = Field("colors", col) @@ Field("cellSize", cs)
                        @@ Field("showLegend", le) @@ Field("showDayLabels", dl)
                        @@ Field("borderRadius", br)

\* a call on the generator: the method, the colour scheme (<<>> where the
\* method takes none), and the options
Call(method, scheme, given) == [method |-> method, scheme |-> scheme, options |-> given]

\* the calls of a session: generateSVG with no options, with its own cell
\* size and palette, and with the labels off and a padding; three presets
SessionCalls ==
    {Call("generateSVG", <<>>, Field("cellSize", <<>>)),
     Call("generateSVG", <<>>,
          Field("cellSize", <<2>>) @@ Field("colors", <<<<"#000000", "#ffffff">>>>)),
     Call("generateSVG", <<>>,
          Field("showDayLabels", <<FALSE>>) @@ Field("padding", <<[left |-> 7]>>)),
     Call("generateCustomColorHeatmap", <<"purple">>, Field("showLegend", <<FALSE>>)),
     Call("generateLinkedInHeader", <<>>, Field("theme", <<"black">>)),
     Call("generateCustomLinkedInBanner", <<>>, Field("username", <<"octocat">>))}

\* the data of a session
SessionInput ==
    \E weeks \in CellWeeks \cup {<<>>}, username \in {<<>>, <<"octocat">>} :
        data = HeatmapData(weeks, 7, username)

\* what sharp reads from the SVG: no size, a size, the banner's size, a width only
Metadatas ==
    {<<>>, [width |-> 101, height |-> 33], [width |-> 1584, height |-> 396],
     [width |-> 101]}

\* the environment of a conversion: the failing call, if any; sharp that is
\* not installed fails at require
ConvertEnvs ==
    {e \in {[failAt |-> f, sharp |-> sh, metadata |-> m] :
                f \in {"none", "require-sharp", "readFileSync", "sharp", "metadata",
                       "resize", "png", "toFile"},
                sh \in {"installed", "missing"}, m \in Metadatas} :
        e.sharp = "missing" => e.failAt = "require-sharp"}

\* the environment of a file write
SaveEnvs ==
    {[failAt |-> f, sharp |-> "installed", metadata |-> <<>>] :
        f \in {"none", "require-fs", "writeFileSync"}}

Scales == {Quot(n, 2) : n \in 0..MaxScaleHalves}

\* the options argument of convertToPNG
ConvertInput ==
    \E q \in {<<>>, <<80>>}, sc \in {<<>>} \cup {<<x>> : x \in Scales},
       w \in {<<>>, <<0>>, <<1920>>}, h \in {<<>>, <<0>>, <<1080>>} :
        options = Field("quality", q) @@ Field("scale", sc)
                     @@ Field("width", w) @@ Field("height", h)

\* the scale argument of convertToHighQualityPNG
HighQualityInput ==
    \E sc \in {<<>>} \cup {<<x>> : x \in Scales} : options = Field("scale", sc)

\* what the client may throw: Error objects with the API's messages, one
\* naming both causes, one of another kind, and a thrown value that is not
\* an Error
ClientErrors ==
    {[isError |-> TRUE, message |-> <<"Bad credentials">>],
     [isError |-> TRUE,
      message |-> <<"Could not resolve to a User", " with the login of 'rndmcodeguy20'">>],
     [isError |-> TRUE,
      message |-> <<"Bad credentials", "; ", "Could not resolve to a User">>],
     [isError |-> TRUE, message |-> <<"request to https://api.github.com/graphql failed">>],
     [isError |-> FALSE, message |-> <<"Bad credentials">>]}

\* what the request of the script settles with: a calendar or an error
ClientResponses ==
    {[kind |-> "data", calendar |-> c] : c \in ScenarioCalendars}
    \cup {[kind |-> "error", error |-> e] : e \in ClientErrors}

\* the environment of the script: the client's response, and the file and
\* raster environment
ScriptEnvs ==
    {[client |-> r, failAt |-> e.failAt, sharp |-> e.sharp, metadata |-> e.metadata] :
        r \in ClientResponses,
        e \in {x \in ConvertEnvs \cup SaveEnvs :
                /\ x.failAt \in {"none", "require-sharp", "writeFileSync", "toFile"}
                /\ x.metadata \in {<<>>, [width |-> 1584, height |-> 396]}}}

\* the environment of createLinkedInHeatmap: the client's response, sharp
\* installed or not, the conversions that fail in sharp, and a file system
\* that takes writes or refuses them
LinkedInEnvs ==
    {e \in [client : {[kind |-> "data", calendar |-> ScenarioWeek],
                      [kind |-> "data", calendar |-> ScenarioEmptyWeek],
                      [kind |-> "error",
                       error |-> [isError |-> TRUE, message |-> <<"Bad credentials">>]]},
            sharp : {"installed", "missing"},
            sharpFails : SUBSET (1..4),
            writeFails : BOOLEAN] :
        e.sharp = "missing" => e.sharpFails = {}}

\* a repository of the listing
Repo(i) ==
    [name |-> "repo" \o DecStr(i), full_name |-> "octocat/repo" \o DecStr(i),
     description |-> "", language |-> "TypeScript", stargazers_count |-> i,
     forks_count |-> 0, updated_at |-> i]

\* the environment of fetchRepositoryActivity: the listing fails, or it
\* holds up to MaxRepos repositories whose requests settle freely
RepoEnvs ==
    {[listing |-> [kind |-> "error",
                   error |-> [isError |-> TRUE, message |-> <<"Not Found">>]],
      responses |-> <<>>]}
    \cup {[listing |-> [kind |-> "data", repos |-> [i \in 1..n |-> Repo(i)]],
           responses |-> r] :
            n \in 0..MaxRepos,
            r \in UNION {[1..m -> {[kind |-> "fail"], [kind |-> "nodata"]}
                                    \cup {[kind |-> "data", data |-> <<[total |-> k]>>] :
                                            k \in {7}}] : m \in 0..MaxRepos}}

\* the component flags of generateModularSVG
componentNames ==
    {"includeGrid", "includeTitle", "includeSummary", "includeLegend",
     "includeMonthLabels", "includeDayLabels"}

\* the flags a caller passes: none, one or two of them set either way, or
\* all of them off
ComponentFlags ==
    UNION {[S -> BOOLEAN] : S \in {{}, {"includeGrid"}, {"includeTitle", "includeLegend"}}}
    \cup {[f \in componentNames |-> FALSE]}

LevelCounts == (0..MaxLevelCount) \cup {1000}

----------------------------------------------------------------------------
(* The state machine.                                                      *)

Idle == <<>>

\* a script that uses no banner preset: what the presets read is not looked at
PresetIdle ==
    /\ svgLogos = <<>>
    /\ colorScheme = Idle
    /\ fetchResult = Idle

\* a script that has not touched the file system, sharp or the console
IoIdle ==
    /\ env = Idle
    /\ calls = <<>>
    /\ log = <<>>
    /\ outcome = Idle

\* a script about to call getContributionLevel on two counts
LevelInit ==
    /\ generator = newGenerator
    /\ repoActivity = <<>>
    /\ history = <<>>
    /\ pc = "level"
    /\ tzWest = FALSE
    /\ countA \in LevelCounts
    /\ countB \in LevelCounts
    /\ levelA = Idle
    /\ levelB = Idle
    /\ PresetIdle
    /\ IoIdle
    /\ calendar = Idle
    /\ processed = Idle
    /\ data = Idle
    /\ options = Idle
    /\ svgDimensions = Idle
    /\ svg = Idle

\* a script holding the calendar fetchContributionData returned
NormInit ==
    /\ generator = newGenerator
    /\ repoActivity = <<>>
    /\ history = <<>>
    /\ pc = "fetched"
    /\ tzWest = FALSE
    /\ \/ FreeCalendar
       \/ WeekdayCalendar
       \/ MonthCalendar
       \/ calendar \in ScenarioCalendars
    /\ processed = Idle
    /\ data = Idle
    /\ options = <<>>
    /\ svgDimensions = Idle
    /\ svg = Idle
    /\ countA = 0
    /\ countB = 0
    /\ levelA = Idle
    /\ levelB = Idle
    /\ PresetIdle
    /\ IoIdle

\* a script holding a HeatmapData it built itself, and its options
RenderInit ==
    /\ generator = newGenerator
    /\ repoActivity = <<>>
    /\ history = <<>>
    /\ pc = "data"
    /\ tzWest \in BOOLEAN
    /\ \/ LabelInput
       \/ LabelScenarioInput
       \/ DimensionInput
       \/ ComponentInput
       \/ SquareInput
       \/ MergeInput
    /\ calendar = Idle
    /\ processed = Idle
    /\ svgDimensions = Idle
    /\ svg = Idle
    /\ countA = 0
    /\ countB = 0
    /\ levelA = Idle
    /\ levelB = Idle
    /\ PresetIdle
    /\ IoIdle

\* a script holding a HeatmapData and the options of a banner preset
BannerInit ==
    /\ generator = newGenerator
    /\ repoActivity = <<>>
    /\ history = <<>>
    /\ \/ pc = "headerData" /\ HeaderInput /\ svgLogos = <<>>
       \/ pc = "bannerData" /\ CustomBannerInput /\ svgLogos \in LogoLists
    /\ colorScheme = Idle
    /\ fetchResult = Idle
    /\ IoIdle
    /\ tzWest = FALSE
    /\ calendar = Idle
    /\ processed = Idle
    /\ svgDimensions = Idle
    /\ svg = Idle
    /\ countA = 0
    /\ countB = 0
    /\ levelA = Idle
    /\ levelB = Idle

\* a script about to call generateCustomColorHeatmap
SchemeInit ==
    /\ generator = newGenerator
    /\ repoActivity = <<>>
    /\ history = <<>>
    /\ pc = "schemeData"
    /\ tzWest = FALSE
    /\ SchemeInput
    /\ svgLogos = <<>>
    /\ fetchResult = Idle
    /\ IoIdle
    /\ calendar = Idle
    /\ processed = Idle
    /\ svgDimensions = Idle
    /\ svg = Idle
    /\ countA = 0
    /\ countB = 0
    /\ levelA = Idle
    /\ levelB = Idle

\* a script holding a markup, about to save it or to convert the saved file
FilesInit ==
    /\ generator = newGenerator
    /\ repoActivity = <<>>
    /\ history = <<>>
    /\ \/ /\ pc = "saveCall"
          /\ options = <<>>
          /\ env \in SaveEnvs
       \/ /\ pc = "pngCall"
          /\ ConvertInput
          /\ env \in ConvertEnvs
       \/ /\ pc = "hqCall"
          /\ HighQualityInput
          /\ env \in ConvertEnvs
    /\ data = HeatmapData(<<>>, 0, <<>>)
    /\ svg = generateSVG(HeatmapData(<<>>, 0, <<>>), <<>>)
    /\ svgDimensions = Idle
    /\ calls = <<>>
    /\ log = <<>>
    /\ outcome = Idle
    /\ tzWest = FALSE
    /\ calendar = Idle
    /\ processed = Idle
    /\ countA = 0
    /\ countB = 0
    /\ levelA = Idle
    /\ levelB = Idle
    /\ PresetIdle

\* createMyCustomLinkedInBanner has been called
ScriptInit ==
    /\ generator = newGenerator
    /\ repoActivity = <<>>
    /\ history = <<>>
    /\ pc = "script"
    /\ env \in ScriptEnvs
    /\ svgLogos \in LogoLists
    /\ options = scriptBannerOptions
    /\ colorScheme = Idle
    /\ fetchResult = Idle
    /\ calls = <<>>
    /\ log = <<>>
    /\ outcome = Idle
    /\ tzWest = FALSE
    /\ calendar = Idle
    /\ processed = Idle
    /\ data = Idle
    /\ svgDimensions = Idle
    /\ svg = Idle
    /\ countA = 0
    /\ countB = 0
    /\ levelA = Idle
    /\ levelB = Idle

\* a script holding one SVGHeatmapGenerator and a HeatmapData, about to make
\* render calls on it
SessionInit ==
    /\ generator = newGenerator
    /\ repoActivity = <<>>
    /\ history = <<>>
    /\ pc = "session"
    /\ tzWest = FALSE
    /\ SessionInput
    /\ options = Idle
    /\ calendar = Idle
    /\ processed = Idle
    /\ svgDimensions = Idle
    /\ svg = Idle
    /\ countA = 0
    /\ countB = 0
    /\ levelA = Idle
    /\ levelB = Idle
    /\ PresetIdle
    /\ IoIdle

\* createLinkedInHeatmap has been called
LinkedInInit ==
    /\ generator = newGenerator
    /\ repoActivity = <<>>
    /\ history = <<>>
    /\ pc = "linkedin"
    /\ env \in LinkedInEnvs
    /\ svgLogos \in LogoLists
    /\ options = Idle
    /\ colorScheme = Idle
    /\ fetchResult = Idle
    /\ calls = <<>>
    /\ log = <<>>
    /\ outcome = Idle
    /\ tzWest = FALSE
    /\ calendar = Idle
    /\ processed = Idle
    /\ data = Idle
    /\ svgDimensions = Idle
    /\ svg = Idle
    /\ countA = 0
    /\ countB = 0
    /\ levelA = Idle
    /\ levelB = Idle

\* fetchRepositoryActivity("octocat") has been called
RepoInit ==
    /\ generator = newGenerator
    /\ repoActivity = <<>>
    /\ history = <<>>
    /\ pc = "repos"
    /\ env \in {e \in RepoEnvs :
                    e.listing.kind = "data" => Len(e.responses) = Len(e.listing.repos)}
    /\ svgLogos = <<>>
    /\ options = Idle
    /\ colorScheme = Idle
    /\ fetchResult = Idle
    /\ calls = <<>>
    /\ log = <<>>
    /\ outcome = Idle
    /\ tzWest = FALSE
    /\ calendar = Idle
    /\ processed = Idle
    /\ data = Idle
    /\ svgDimensions = Idle
    /\ svg = Idle
    /\ countA = 0
    /\ countB = 0
    /\ levelA = Idle
    /\ levelB = Idle

Init ==
    \/ LevelInit
    \/ NormInit
    \/ RenderInit
    \/ BannerInit
    \/ SchemeInit
    \/ FilesInit
    \/ ScriptInit
    \/ SessionInit
    \/ LinkedInInit
    \/ RepoInit

\* getContributionLevel(countA), getContributionLevel(countB)
GetContributionLevel ==
    /\ pc = "level"
    /\ levelA' = getContributionLevel(countA)
    /\ levelB' = getContributionLevel(countB)
    /\ pc' = "levelled"
    /\ UNCHANGED <<tzWest, calendar, processed, data, options, svgDimensions, svg,
                   countA, countB>>
    /\ UNCHANGED presetVars
    /\ UNCHANGED ioVars
    /\ UNCHANGED <<generator, history, repoActivity>>

\* heatmapData = fetcher.processContributionDataForHeatmap(contributionData)
ProcessContributionData ==
    /\ pc = "fetched"
    /\ processed' = processContributionDataForHeatmap(calendar)
    /\ pc' = "processed"
    /\ UNCHANGED <<tzWest, calendar, data, options, svgDimensions, svg,
                   countA, countB, levelA, levelB>>
    /\ UNCHANGED presetVars
    /\ UNCHANGED ioVars
    /\ UNCHANGED <<generator, history, repoActivity>>

\* createHeatmapData(processedData, username)
CreateHeatmapData ==
    /\ pc = "processed"
    /\ data' = createHeatmapData(processed, <<"octocat">>)
    /\ pc' = "data"
    /\ UNCHANGED <<tzWest, calendar, processed, options, svgDimensions, svg,
                   countA, countB, levelA, levelB>>
    /\ UNCHANGED presetVars
    /\ UNCHANGED ioVars
    /\ UNCHANGED <<generator, history, repoActivity>>

\* svgGenerator.generateSVG(data, options)
GenerateSVG ==
    /\ pc = "data"
    /\ svgDimensions' = calculateDimensions(data,
                            mergeOptions(generator.defaultOptions, options))
    /\ svg' = generateSVG(data, options)
    /\ generator' = generatorAfterRender(generator, options)
    /\ pc' = "rendered"
    /\ UNCHANGED <<tzWest, calendar, processed, data, options,
                   countA, countB, levelA, levelB>>
    /\ UNCHANGED presetVars
    /\ UNCHANGED ioVars
    /\ UNCHANGED <<history, repoActivity>>

\* svgGenerator.generateModularSVG(data, components, options)
GenerateModularSVG ==
    /\ pc = "data"
    /\ \E components \in ComponentFlags :
        /\ svg' = generateModularSVG(data, components, options)
        /\ history' = <<[op |-> "generateModularSVG", components |-> components]>>
    /\ svgDimensions' = calculateDimensions(data,
                            mergeOptions(generator.defaultOptions, options))
    /\ pc' = "modular"
    /\ UNCHANGED <<tzWest, calendar, processed, data, options,
                   countA, countB, levelA, levelB>>
    /\ UNCHANGED presetVars
    /\ UNCHANGED ioVars
    /\ UNCHANGED <<generator, repoActivity>>

\* svgGenerator.generateLinkedInHeader(data, options)
GenerateLinkedInHeader ==
    /\ pc = "headerData"
    /\ svg' = generateLinkedInHeader(data, options)
    /\ pc' = "header"
    /\ UNCHANGED <<tzWest, calendar, processed, data, options, svgDimensions,
                   countA, countB, levelA, levelB>>
    /\ UNCHANGED presetVars
    /\ UNCHANGED ioVars
    /\ UNCHANGED <<generator, history, repoActivity>>

\* svgGenerator.generateCustomLinkedInBanner(data, options)
GenerateCustomLinkedInBanner ==
    /\ pc = "bannerData"
    /\ svg' = generateCustomLinkedInBanner(data, options)
    /\ pc' = "banner"
    /\ UNCHANGED <<tzWest, calendar, processed, data, options, svgDimensions,
                   countA, countB, levelA, levelB>>
    /\ UNCHANGED presetVars
    /\ UNCHANGED ioVars
    /\ UNCHANGED <<generator, history, repoActivity>>

\* svgGenerator.generateCustomColorHeatmap(data, colorScheme, options)
GenerateCustomColorHeatmap ==
    /\ pc = "schemeData"
    /\ svgDimensions' = calculateDimensions(data,
                            mergeOptions(generator.defaultOptions,
                                         schemeOptions(colorScheme, options)))
    /\ svg' = generateCustomColorHeatmap(data, colorScheme, options)
    /\ generator' = generatorAfterRender(generator, schemeOptions(colorScheme, options))
    /\ pc' = "schemed"
    /\ UNCHANGED <<tzWest, calendar, processed, data, options,
                   countA, countB, levelA, levelB>>
    /\ UNCHANGED presetVars
    /\ UNCHANGED ioVars
    /\ UNCHANGED <<history, repoActivity>>

\* svgGenerator.saveSVGToFile(svg, "heatmap.svg")
SaveSVGToFile ==
    /\ pc = "saveCall"
    /\ LET r == saveSVGToFile(svg, "heatmap.svg", env)
       IN  /\ calls' = r.calls
           /\ log' = r.log
           /\ outcome' = r.outcome
    /\ pc' = "saved"
    /\ UNCHANGED <<tzWest, calendar, processed, data, options, svgDimensions, svg,
                   countA, countB, levelA, levelB, env>>
    /\ UNCHANGED presetVars
    /\ UNCHANGED <<generator, history, repoActivity>>

\* await svgGenerator.convertToPNG("heatmap.svg", "heatmap.png", options)
ConvertToPNG ==
    /\ pc = "pngCall"
    /\ LET r == convertToPNG("heatmap.svg", "heatmap.png", options, env)
       IN  /\ calls' = r.calls
           /\ log' = r.log
           /\ outcome' = r.outcome
    /\ pc' = "converted"
    /\ UNCHANGED <<tzWest, calendar, processed, data, options, svgDimensions, svg,
                   countA, countB, levelA, levelB, env>>
    /\ UNCHANGED presetVars
    /\ UNCHANGED <<generator, history, repoActivity>>

\* await svgGenerator.convertToHighQualityPNG("heatmap.svg", "heatmap-hq.png", scale)
ConvertToHighQualityPNG ==
    /\ pc = "hqCall"
    /\ LET scale == IF "scale" \in DOMAIN options THEN <<options.scale>> ELSE <<>>
           r == convertToHighQualityPNG("heatmap.svg", "heatmap-hq.png", scale, env)
       IN  /\ calls' = r.calls
           /\ log' = r.log
           /\ outcome' = r.outcome
    /\ pc' = "convertedHq"
    /\ UNCHANGED <<tzWest, calendar, processed, data, options, svgDimensions, svg,
                   countA, countB, levelA, levelB, env>>
    /\ UNCHANGED presetVars
    /\ UNCHANGED <<generator, history, repoActivity>>

\* createMyCustomLinkedInBanner up to its first await: it announces itself
\* and fetchContributionData sends the request
ScriptStart ==
    /\ pc = "script"
    /\ log' = Append(log, LogEntry("log", "Creating your custom LinkedIn banner for rndmcodeguy20..."))
    /\ calls' = Append(calls, [op |-> "graphql", username |-> "rndmcodeguy20"])
    /\ pc' = "awaitRequest"
    /\ UNCHANGED <<tzWest, calendar, processed, data, options, svgDimensions, svg,
                   countA, countB, levelA, levelB, presetVars, env, outcome>>
    /\ UNCHANGED <<generator, history, repoActivity>>

\* the request settles and fetchContributionData returns or rethrows
FetchSettles ==
    /\ pc = "awaitRequest"
    /\ LET r == fetchContributionData(env.client)
       IN  /\ log' = log \o r.log
           /\ fetchResult' = r.result
    /\ pc' = "awaitFetch"
    /\ UNCHANGED <<tzWest, calendar, processed, data, options, svgDimensions, svg,
                   countA, countB, levelA, levelB, svgLogos, colorScheme,
                   env, calls, outcome>>
    /\ UNCHANGED <<generator, history, repoActivity>>

\* the script resumes with the data: it normalizes, renders the banner and
\* saves it, then starts the first conversion
ScriptRender ==
    /\ pc = "awaitFetch"
    /\ fetchResult.kind = "resolved"
    /\ calendar' = fetchResult.value
    /\ processed' = processContributionDataForHeatmap(fetchResult.value)
    /\ data' = createHeatmapData(processed', <<"rndmcodeguy20">>)
    /\ svg' = generateCustomLinkedInBanner(data', options)
    /\ LET r == saveSVGToFile(svg', "rndmcodeguy-linkedin-banner.svg", env)
       IN  /\ calls' = calls \o r.calls
           /\ log' = log \o r.log
    /\ pc' = "awaitPng1"
    /\ UNCHANGED <<tzWest, options, svgDimensions, countA, countB, levelA, levelB,
                   presetVars, env, outcome>>
    /\ UNCHANGED <<generator, history, repoActivity>>

\* one of the three awaited conversions settles (none of them rejects, so
\* the catch block around them is never entered)
ScriptConvert ==
    \E n \in 1..3 :
        /\ pc = <<"awaitPng1", "awaitPng2", "awaitPng3">>[n]
        /\ LET c == scriptConversions[n]
               r == IF c.hq
                    THEN convertToHighQualityPNG("rndmcodeguy-linkedin-banner.svg",
                                                 c.file, <<Quot(4, 2)>>, env)
                    ELSE convertToPNG("rndmcodeguy-linkedin-banner.svg", c.file,
                                      c.opts, env)
           IN  /\ r.outcome = Completed
               /\ calls' = calls \o r.calls
               /\ log' = log \o r.log
        /\ pc' = <<"awaitPng2", "awaitPng3", "pngDone">>[n]
        /\ UNCHANGED <<tzWest, calendar, processed, data, options, svgDimensions, svg,
                       countA, countB, levelA, levelB, presetVars, env, outcome>>
        /\ UNCHANGED <<generator, history, repoActivity>>

\* the script prints its closing notes and returns the banner
ScriptFinish ==
    /\ pc = "pngDone"
    /\ log' = Append(log, LogEntry("log", "Your custom LinkedIn banner is ready!"))
    /\ outcome' = Resolved(<<svg>>)
    /\ pc' = "scriptDone"
    /\ UNCHANGED <<tzWest, calendar, processed, data, options, svgDimensions, svg,
                   countA, countB, levelA, levelB, presetVars, env, calls>>
    /\ UNCHANGED <<generator, history, repoActivity>>

\* the script resumes with the rejection: its catch block prints the error
\* and the guidance, and the function ends without a value
ScriptCatch ==
    /\ pc = "awaitFetch"
    /\ fetchResult.kind = "rejected"
    /\ log' = log \o scriptCatch(fetchResult.error)
    /\ outcome' = Resolved(<<>>)
    /\ pc' = "scriptDone"
    /\ UNCHANGED <<tzWest, calendar, processed, data, options, svgDimensions, svg,
                   countA, countB, levelA, levelB, presetVars, env, calls>>
    /\ UNCHANGED <<generator, history, repoActivity>>

\* the markup a call returns
render(d, call) ==
    CASE call.method = "generateSVG" -> generateSVG(d, call.options)
      [] call.method = "generateCustomColorHeatmap" ->
            generateCustomColorHeatmap(d, call.scheme[1], call.options)
      [] call.method = "generateLinkedInHeader" ->
            generateLinkedInHeader(d, call.options)
      [] call.method = "generateCustomLinkedInBanner" ->
            generateCustomLinkedInBanner(d, call.options)

\* the options a call hands to generateSVG; the banner presets build their
\* markup themselves and never reach generateSVG
mergedBy(call) ==
    CASE call.method = "generateSVG" -> <<call.options>>
      [] call.method = "generateCustomColorHeatmap" ->
            <<schemeOptions(call.scheme[1], call.options)>>
      [] OTHER -> <<>>

\* one more render call on the same generator with the same data
SessionCall ==
    /\ pc = "session"
    /\ Len(history) < MaxCalls
    /\ \E call \in SessionCalls :
        /\ options' = call.options
        /\ colorScheme' = IF call.scheme = <<>> THEN Idle ELSE call.scheme[1]
        /\ svg' = render(data, call)
        /\ generator' = IF mergedBy(call) = <<>> THEN generator
                        ELSE generatorAfterRender(generator, mergedBy(call)[1])
        /\ data' = dataAfterRender(data)
        /\ history' = Append(history, [call |-> call, data |-> data,
                                       dataAfter |-> data', markup |-> svg'])
    /\ UNCHANGED <<pc, tzWest, calendar, processed, svgDimensions,
                   countA, countB, levelA, levelB, svgLogos, fetchResult>>
    /\ UNCHANGED ioVars
    /\ UNCHANGED repoActivity

\* createLinkedInHeatmap up to its first await: it announces the fetch and
\* fetchContributionData sends the request
LinkedInStart ==
    /\ pc = "linkedin"
    /\ log' = Append(log, LogEntry("log", "Fetching GitHub data for rndmcodeguy20..."))
    /\ calls' = Append(calls, [op |-> "graphql", username |-> "rndmcodeguy20"])
    /\ pc' = "liAwaitRequest"
    /\ UNCHANGED <<tzWest, calendar, processed, data, options, svgDimensions, svg,
                   countA, countB, levelA, levelB, presetVars, env, outcome>>
    /\ UNCHANGED <<generator, history, repoActivity>>

\* the request settles and fetchContributionData returns or rethrows
LinkedInFetchSettles ==
    /\ pc = "liAwaitRequest"
    /\ LET r == fetchContributionData(env.client)
       IN  /\ log' = log \o r.log
           /\ fetchResult' = r.result
    /\ pc' = "liAwaitFetch"
    /\ UNCHANGED <<tzWest, calendar, processed, data, options, svgDimensions, svg,
                   countA, countB, levelA, levelB, svgLogos, colorScheme,
                   env, calls, outcome>>
    /\ UNCHANGED <<generator, history, repoActivity>>

\* the script resumes with the data: it normalizes, generates and saves the
\* four SVGs (svg holds them in order) and announces the conversions
LinkedInRender ==
    /\ pc = "liAwaitFetch"
    /\ fetchResult.kind = "resolved"
    /\ calendar' = fetchResult.value
    /\ processed' = processContributionDataForHeatmap(fetchResult.value)
    /\ data' = createHeatmapData(processed', <<"rndmcodeguy20">>)
    /\ svg' = linkedInMarkups(data')
    /\ LET save(n) == saveSVGToFile(svg'[n], linkedInStems[n] \o ".svg", saveEnvOf(env))
       IN  /\ calls' = calls \o save(1).calls \o save(2).calls
                            \o save(3).calls \o save(4).calls
           /\ log' = log \o <<LogEntry("log", "Creating LinkedIn-optimized heatmaps...")>>
                         \o save(1).log \o save(2).log \o save(3).log \o save(4).log
                         \o <<LogEntry("log", "Converting to PNG format...")>>
    /\ pc' = "liPng1"
    /\ UNCHANGED <<tzWest, options, svgDimensions, countA, countB, levelA, levelB,
                   presetVars, env, outcome>>
    /\ UNCHANGED <<generator, history, repoActivity>>

\* the n-th awaited convertSvgToPng settles: resolved, the script goes on to
\* the next statement; rejected, it goes to its catch block
LinkedInConvert ==
    \E n \in 1..4 :
        /\ pc = <<"liPng1", "liPng2", "liPng3", "liPng4">>[n]
        /\ LET r == convertSvgToPng(svg[n], <<linkedInStems[n], ".png">>, 1584, 396,
                                    convertEnvOf(env, n))
           IN  /\ calls' = calls \o r.calls
               /\ log' = log \o r.log
               /\ IF r.outcome = Completed
                  THEN /\ pc' = <<"liPng2", "liPng3", "liPng4", "liPngDone">>[n]
                       /\ outcome' = outcome
                  ELSE /\ pc' = "liRejected"
                       /\ outcome' = Rejected([isError |-> TRUE,
                                               message |-> <<r.outcome.error.step, " failed">>])
        /\ UNCHANGED <<tzWest, calendar, processed, data, options, svgDimensions, svg,
                       countA, countB, levelA, levelB, presetVars, env>>
        /\ UNCHANGED <<generator, history, repoActivity>>

\* the script prints its completion message and its notes and returns the
\* custom banner
LinkedInFinish ==
    /\ pc = "liPngDone"
    /\ log' = Append(log, LogEntry("log", "LinkedIn headers created successfully!"))
    /\ outcome' = Resolved(<<svg[1]>>)
    /\ pc' = "liDone"
    /\ UNCHANGED <<tzWest, calendar, processed, data, options, svgDimensions, svg,
                   countA, countB, levelA, levelB, presetVars, env, calls>>
    /\ UNCHANGED <<generator, history, repoActivity>>

\* the script resumes with a rejection (of the fetch or of a conversion):
\* its catch block prints the error and the function ends without a value
LinkedInCatch ==
    /\ \/ pc = "liAwaitFetch" /\ fetchResult.kind = "rejected"
       \/ pc = "liRejected"
    /\ log' = log \o linkedInCatch(IF pc = "liRejected" THEN outcome.error
                                    ELSE fetchResult.error)
    /\ outcome' = Resolved(<<>>)
    /\ pc' = "liDone"
    /\ UNCHANGED <<tzWest, calendar, processed, data, options, svgDimensions, svg,
                   countA, countB, levelA, levelB, presetVars, env, calls>>
    /\ UNCHANGED <<generator, history, repoActivity>>

\* fetchRepositoryActivity up to its first await: the listing is requested
RepoStart ==
    /\ pc = "repos"
    /\ calls' = Append(calls, [op |-> "listForUser", username |-> "octocat"])
    /\ pc' = "repoAwaitList"
    /\ UNCHANGED <<log, outcome, repoActivity>>
    /\ UNCHANGED <<tzWest, calendar, processed, data, options, svgDimensions, svg,
                   countA, countB, levelA, levelB, presetVars, env>>
    /\ UNCHANGED <<generator, history>>

\* the listing settles: rejected, the outer catch logs and rethrows; resolved,
\* repos.map starts every callback, each sending its request, and
\* Promise.all waits for them
RepoListed ==
    /\ pc = "repoAwaitList"
    /\ IF env.listing.kind = "error"
       THEN /\ log' = Append(log, LogEntry("error", "Error fetching repository activity:"))
            /\ outcome' = Rejected(env.listing.error)
            /\ pc' = "repoDone"
            /\ UNCHANGED <<calls, repoActivity>>
       ELSE /\ calls' = calls \o [i \in 1..Len(env.listing.repos) |->
                                    [op |-> "getCommitActivityStats",
                                     repo |-> env.listing.repos[i].name]]
            /\ repoActivity' = [i \in 1..Len(env.listing.repos) |-> <<>>]
            /\ pc' = "repoAwaitAll"
            /\ UNCHANGED <<log, outcome>>
    /\ UNCHANGED <<tzWest, calendar, processed, data, options, svgDimensions, svg,
                   countA, countB, levelA, levelB, presetVars, env>>
    /\ UNCHANGED <<generator, history>>

\* the request of one repository settles and its callback returns its entry
RepoSettles ==
    /\ pc = "repoAwaitAll"
    /\ \E i \in 1..Len(repoActivity) :
        /\ ~\E c \in 1..Len(calls) : calls[c] = [op |-> "settled", index |-> i]
        /\ LET r == repoCallback(env.listing.repos[i], env.responses[i])
           IN  /\ repoActivity' = promiseAll(repoActivity, i, r.entry)
               /\ log' = log \o r.log
        /\ calls' = Append(calls, [op |-> "settled", index |-> i])
    /\ UNCHANGED <<pc, outcome>>
    /\ UNCHANGED <<tzWest, calendar, processed, data, options, svgDimensions, svg,
                   countA, countB, levelA, levelB, presetVars, env>>
    /\ UNCHANGED <<generator, history>>

\* every callback has returned: Promise.all fulfils and the function returns
\* the entries
RepoAllSettled ==
    /\ pc = "repoAwaitAll"
    /\ \A i \in 1..Len(repoActivity) : repoActivity[i] # <<>>
    /\ outcome' = Resolved([i \in 1..Len(repoActivity) |-> repoActivity[i][1]])
    /\ pc' = "repoDone"
    /\ UNCHANGED <<calls, log, repoActivity>>
    /\ UNCHANGED <<tzWest, calendar, processed, data, options, svgDimensions, svg,
                   countA, countB, levelA, levelB, presetVars, env>>
    /\ UNCHANGED <<generator, history>>

Next ==
    \/ GetContributionLevel
    \/ ProcessContributionData
    \/ CreateHeatmapData
    \/ GenerateSVG
    \/ GenerateLinkedInHeader
    \/ GenerateCustomLinkedInBanner
    \/ GenerateCustomColorHeatmap
    \/ SaveSVGToFile
    \/ ConvertToPNG
    \/ ConvertToHighQualityPNG
    \/ ScriptStart
    \/ FetchSettles
    \/ ScriptRender
    \/ ScriptConvert
    \/ ScriptFinish
    \/ ScriptCatch
    \/ SessionCall
    \/ LinkedInStart
    \/ LinkedInFetchSettles
    \/ LinkedInRender
    \/ LinkedInConvert
    \/ LinkedInFinish
    \/ LinkedInCatch
    \/ RepoStart
    \/ RepoListed
    \/ RepoSettles
    \/ RepoAllSettled
    \/ GenerateModularSVG

Spec == Init /\ [][Next]_vars

LevelNext == GetContributionLevel

SpecLevel == LevelInit /\ [][LevelNext]_vars

NormNext ==
    \/ ProcessContributionData
    \/ CreateHeatmapData
    \/ GenerateSVG

SpecNorm == NormInit /\ [][NormNext]_vars

RenderNext == GenerateSVG

SpecRender == RenderInit /\ [][RenderNext]_vars

ModularNext == GenerateModularSVG

SpecModular == RenderInit /\ [][ModularNext]_vars

BannerNext ==
    \/ GenerateLinkedInHeader
    \/ GenerateCustomLinkedInBanner

SpecBanner == BannerInit /\ [][BannerNext]_vars

SchemeNext == GenerateCustomColorHeatmap

SpecScheme == SchemeInit /\ [][SchemeNext]_vars

FilesNext ==
    \/ SaveSVGToFile
    \/ ConvertToPNG
    \/ ConvertToHighQualityPNG

SpecFiles == FilesInit /\ [][FilesNext]_vars

ScriptNext ==
    \/ ScriptStart
    \/ FetchSettles
    \/ ScriptRender
    \/ ScriptConvert
    \/ ScriptFinish
    \/ ScriptCatch

SpecScript == ScriptInit /\ [][ScriptNext]_vars

SessionNext == SessionCall

SpecSession == SessionInit /\ [][SessionNext]_vars

LinkedInNext ==
    \/ LinkedInStart
    \/ LinkedInFetchSettles
    \/ LinkedInRender
    \/ LinkedInConvert
    \/ LinkedInFinish
    \/ LinkedInCatch

SpecLinkedIn == LinkedInInit /\ [][LinkedInNext]_vars

RepoNext ==
    \/ RepoStart
    \/ RepoListed
    \/ RepoSettles
    \/ RepoAllSettled

SpecRepo == RepoInit /\ [][RepoNext]_vars

----------------------------------------------------------------------------
(* Shared vocabulary of the properties.                                    *)

\* the script has the normalizer's result
Processed == pc \in {"processed", "data", "rendered"}

\* the script has the markup
Rendered == pc = "rendered"

\* the value generateSVG works with for a top-level option: the caller's,
\* else the default
Effective(key) == IF key \in DOMAIN options THEN options[key] ELSE defaultOptions[key]

\* the days of the calendar in week order, each week's days in input order
InputDays == flattenWeeks(calendar.weeks)

\* the elements of the markup of one class
OfClass(class) == SelectSeq(svg, LAMBDA e : e.class = class)

\* the largest member of a non-empty finite set of integers
SetMax(S) == CHOOSE m \in S : \A n \in S : n <= m

----------------------------------------------------------------------------
(* C1: for every non-negative count, getContributionLevel(count) is 0 for  *)
(* 0, 1 for 1..3, 2 for 4..6, 3 for 7..9 and 4 from 10 on (with the        *)
(* boundary values of the spec); the level is in 0..4 and non-decreasing   *)
(* in the count.                                                           *)

LevelBoundaries ==
    {<<0, 0>>, <<3, 1>>, <<4, 2>>, <<6, 2>>, <<7, 3>>, <<9, 3>>, <<10, 4>>, <<1000, 4>>}

C1_LevelTable ==
    pc = "levelled" =>
        /\ countA = 0 => levelA = 0
        /\ countA \in 1..3 => levelA = 1
        /\ countA \in 4..6 => levelA = 2
        /\ countA \in 7..9 => levelA = 3
        /\ countA >= 10 => levelA = 4
        /\ \A b \in LevelBoundaries : countA = b[1] => levelA = b[2]
        /\ levelA \in 0..4
        /\ countA <= countB => levelA <= levelB

C1_Witness ==
    /\ pc = "levelled"
    /\ countA = 3 /\ levelA = 1
    /\ countB = 1000 /\ levelB = 4

----------------------------------------------------------------------------
(* C2: calculateStreaks returns as `current` the length of the run that    *)
(* ends at the most recent day, in which every day has count > 0 and each  *)
(* day is exactly one calendar day after the one before it; it is 0 when   *)
(* the most recent day has count 0 (counts 5, 3, 0 give 0) and counts 2, 4 *)
(* on two consecutive dates give 2.                                        *)

\* days[from..to] all have count > 0 and lie on consecutive calendar dates
IsRun(days, from, to) ==
    /\ \A j \in from..to : days[j].contributionCount > 0
    /\ \A j \in (from + 1)..to : days[j].date = days[j - 1].date + 1

\* the length of the run that ends at the last day of a chronological list
RunAtEnd(days) ==
    SetMax({k \in 0..Len(days) : IsRun(days, Len(days) - k + 1, Len(days))})

C2_CurrentStreak ==
    Processed =>
        /\ processed.stats.streaks.current = RunAtEnd(sortDays(InputDays))
        /\ calendar = ScenarioStreakBroken => processed.stats.streaks.current = 0
        /\ calendar = ScenarioStreakTwo => processed.stats.streaks.current = 2

----------------------------------------------------------------------------
(* C3: calculateStreaks returns as `longest` the length of the longest     *)
(* run, anywhere in the list, of days that all have count > 0 and lie on   *)
(* consecutive calendar dates.                                             *)

LongestRun(days) ==
    SetMax({0} \cup {to - from + 1 :
                        <<from, to>> \in {p \in (1..Len(days)) \X (1..Len(days)) :
                                            p[1] <= p[2] /\ IsRun(days, p[1], p[2])}})

C3_LongestStreak ==
    Processed => processed.stats.streaks.longest = LongestRun(sortDays(InputDays))

----------------------------------------------------------------------------
(* Month labels: vocabulary of C4.                                         *)

MonthLabelsOn == Rendered /\ Effective("showMonthLabels")

\* the month generateMonthLabels reads for week w (0-based): getMonth of
\* its firstDay, in local time
WeekMonth(w) == getMonth(data.weeks[w + 1].firstDay)

\* the x-position of week w (0-based)
WeekX(w) ==
    svgDimensions.leftPadding + w * (Effective("cellSize") + Effective("cellPadding"))

\* a month label reading `name` is emitted at week w's x-position
LabelAt(w, name) ==
    \E i \in 1..Len(svg) :
        /\ svg[i].kind = "text"
        /\ svg[i].class = "month-label"
        /\ svg[i].x = WeekX(w)
        /\ svg[i].content = name

\* some month label is emitted at week w's x-position
LabelledWeek(w) == \E name \in {monthNames[m] : m \in 1..12} : LabelAt(w, name)

\* some month label reads `name`
LabelNamed(name) == \E w \in 0..(Len(data.weeks) - 1) : LabelAt(w, name)

\* the weeks' months never go back (a calendar inside one year)
MonthsAscend ==
    \A w \in 1..(Len(data.weeks) - 1) : WeekMonth(w - 1) <= WeekMonth(w)

(* C4 as claimed: with month labels enabled, the month of week 0 never     *)
(* receives a label anywhere in the output, while a later month is         *)
(* labelled at the first week that starts in it; for weeks 0..3 in January *)
(* and week 4 in February no 'Jan' label is emitted and a 'Feb' label is   *)
(* emitted at week 4's x-position.                                         *)
C4_FirstMonthNeverLabelled ==
    (MonthLabelsOn /\ data.weeks # <<>> /\ MonthsAscend) =>
        /\ ~LabelNamed(monthNames[WeekMonth(0) + 1])
        /\ \A w \in 1..(Len(data.weeks) - 1) :
                WeekMonth(w) # WeekMonth(w - 1) => LabelAt(w, monthNames[WeekMonth(w) + 1])
        /\ data.weeks = ScenarioJanFeb => (~LabelNamed("Jan") /\ LabelAt(4, "Feb"))

(* C4 as amended: with month labels enabled, week 0 itself never carries a *)
(* label, but its month is labelled at week 1 whenever week 1 starts in    *)
(* it; a later month is labelled at the first week that starts in it       *)
(* (months as getMonth reads them, in local time); for weeks 0..3 in       *)
(* January and week 4 in February the labels are exactly 'Jan' at week 1's *)
(* x-position and 'Feb' at week 4's x-position.                            *)
C4_FirstWeekNeverLabelled ==
    MonthLabelsOn =>
        /\ ~LabelledWeek(0)
        /\ Len(data.weeks) >= 2 => LabelAt(1, monthNames[WeekMonth(1) + 1])
        /\ \A w \in 2..(Len(data.weeks) - 1) :
                /\ WeekMonth(w) # WeekMonth(w - 1)
                        => LabelAt(w, monthNames[WeekMonth(w) + 1])
                /\ WeekMonth(w) = WeekMonth(w - 1) => ~LabelledWeek(w)
        /\ data.weeks = ScenarioJanFeb =>
                [i \in 1..Len(OfClass("month-label")) |->
                    <<OfClass("month-label")[i].x, OfClass("month-label")[i].content>>]
                = <<(<<WeekX(1), "Jan">>), (<<WeekX(4), "Feb">>)>>

C4_Witness ==
    /\ MonthLabelsOn
    /\ data.weeks = ScenarioJanFeb
    /\ LabelAt(1, "Jan")
    /\ LabelAt(4, "Feb")
    /\ ~LabelledWeek(0)

----------------------------------------------------------------------------
(* C5: calculateDimensions returns graphWidth = weeksCount * (cellSize +   *)
(* cellPadding) - cellPadding and graphHeight = 7 * (cellSize +            *)
(* cellPadding) - cellPadding; for 53 weeks, cellSize 11 and cellPadding 2 *)
(* the grid width is 687.                                                  *)

C5_GridSize ==
    Rendered =>
        LET weeksCount == Len(data.weeks)
            cellSize == Effective("cellSize")
            cellPadding == Effective("cellPadding")
        IN  /\ svgDimensions.graphWidth = weeksCount * (cellSize + cellPadding) - cellPadding
            /\ svgDimensions.graphHeight = 7 * (cellSize + cellPadding) - cellPadding
            /\ (weeksCount = 53 /\ cellSize = 11 /\ cellPadding = 2)
                    => svgDimensions.graphWidth = 687

C5_Witness ==
    /\ Rendered
    /\ Len(data.weeks) = 53
    /\ "cellSize" \notin DOMAIN options
    /\ "cellPadding" \notin DOMAIN options
    /\ svgDimensions.graphWidth = 687

----------------------------------------------------------------------------
(* C6: when showSummary is true the markup of generateSVG contains a       *)
(* summary text element whose content is '<data.totalContributions>        *)
(* contributions this year'; with totalContributions = 1247 it is          *)
(* '1247 contributions this year'.                                         *)

SummaryReads(content) ==
    \E i \in 1..Len(svg) :
        /\ svg[i].kind = "text"
        /\ svg[i].class = "summary"
        /\ svg[i].content = content

C6_SummaryText ==
    (Rendered /\ Effective("showSummary")) =>
        /\ SummaryReads(DecStr(data.totalContributions) \o " contributions this year")
        /\ data.totalContributions = 0 => SummaryReads("0 contributions this year")
        /\ data.totalContributions = 7 => SummaryReads("7 contributions this year")
        /\ data.totalContributions = 1247 => SummaryReads("1247 contributions this year")

C6_Witness ==
    /\ Rendered
    /\ "showSummary" \in DOMAIN options
    /\ options.showSummary
    /\ data.totalContributions = 1247
    /\ SummaryReads("1247 contributions this year")

----------------------------------------------------------------------------
(* C7: groupContributionsByDayOfWeek returns exactly 7 buckets indexed     *)
(* 0..6 and bucket d holds the sum of contributionCount over exactly the   *)
(* days whose weekday field is d; for one week with weekdays 0..6 and      *)
(* counts 0,1,4,7,10,2,0 the totals are those counts and the cell levels   *)
(* are 0,1,2,3,4,1,0.                                                      *)

\* the sum of the counts of the days whose weekday field is d
WeekdayTotal(days, d) ==
    SumSeq([i \in 1..Len(days) |->
                IF days[i].weekday = d THEN days[i].contributionCount ELSE 0])

C7_WeekdayBuckets ==
    Processed =>
        LET byDay == processed.stats.contributionsByDay
        IN  /\ Len(byDay) = 7
            /\ \A d \in 0..6 :
                /\ byDay[d + 1].dayOfWeek = d
                /\ byDay[d + 1].totalContributions = WeekdayTotal(InputDays, d)
            /\ calendar = ScenarioWeek =>
                /\ [i \in 1..7 |-> byDay[i].totalContributions] = <<0, 1, 4, 7, 10, 2, 0>>
                /\ Rendered =>
                    [i \in 1..Len(OfClass("contribution-square")) |->
                        OfClass("contribution-square")[i].dataLevel]
                    = <<0, 1, 2, 3, 4, 1, 0>>

C7_Witness ==
    /\ Rendered
    /\ calendar = ScenarioWeek
    /\ processed.stats.contributionsByDay[5].totalContributions = 10
    /\ Len(OfClass("contribution-square")) = 7

----------------------------------------------------------------------------
(* C8: the flat day list (allDays) returned by                             *)
(* processContributionDataForHeatmap is the concatenation of each week's   *)
(* contributionDays in week order, the days of every week in their input   *)
(* order: nothing is reordered, dropped or duplicated.                     *)

C8_AllDaysInInputOrder ==
    Processed => processed.allDays = InputDays

----------------------------------------------------------------------------
(* C9 as claimed: stats.totalContributions, which createHeatmapData        *)
(* forwards as the figure of the summary, equals the sum of                *)
(* contributionCount over all flattened days of the calendar.              *)

C9_TotalIsSumOfDays ==
    /\ Processed => processed.stats.totalContributions = SumCounts(InputDays)
    /\ pc \in {"data", "rendered"} => data.totalContributions = SumCounts(InputDays)

(* C9 as amended: stats.totalContributions, which createHeatmapData        *)
(* forwards as the figure of the summary, equals the total the calendar    *)
(* supplies (contributionCalendar.totalContributions); it is never         *)
(* recomputed, so it equals the sum of the days' counts exactly when the   *)
(* supplied total does.                                                    *)
C9_TotalIsSuppliedTotal ==
    /\ Processed =>
        /\ processed.stats.totalContributions = calendar.totalContributions
        /\ (processed.stats.totalContributions = SumCounts(InputDays))
                <=> (calendar.totalContributions = SumCounts(InputDays))
    /\ pc \in {"data", "rendered"} =>
        data.totalContributions = calendar.totalContributions
    /\ (Rendered /\ Effective("showSummary")) =>
        SummaryReads(DecStr(calendar.totalContributions) \o " contributions this year")

C9_Witness ==
    /\ Rendered
    /\ calendar.totalContributions # SumCounts(InputDays)
    /\ data.totalContributions = calendar.totalContributions

----------------------------------------------------------------------------
(* C10: stats.maxContributions equals the maximum contributionCount over   *)
(* all days of the calendar, and equals 0 when the calendar contains no    *)
(* days.                                                                   *)

C10_MaxContributions ==
    Processed =>
        processed.stats.maxContributions =
            IF InputDays = <<>> THEN Num(0)
            ELSE Num(SetMax({InputDays[i].contributionCount : i \in 1..Len(InputDays)}))

----------------------------------------------------------------------------
(* C11: the per-month totals returned by the normalizer hold exactly one   *)
(* entry per distinct year-month of the input days, each entry's total is  *)
(* the sum of the counts of exactly the days of that year-month, and the   *)
(* entries are in strictly ascending year-month order, whatever the order  *)
(* of the input days.                                                      *)

\* the year-months occurring in a day list
MonthsOf(days) == {yearMonth(days[i].date) : i \in 1..Len(days)}

\* the sum of the counts of the days of one year-month
MonthTotal(days, month) ==
    SumSeq([i \in 1..Len(days) |->
        IF yearMonth(days[i].date) = month THEN days[i].contributionCount ELSE 0])

\* a year-month as the number of months since year 0
MonthNumber(month) == month[1] * 12 + month[2]

C11_MonthTotals ==
    Processed =>
        LET byMonth == processed.stats.contributionsByMonth
        IN  /\ Len(byMonth) = Cardinality(MonthsOf(InputDays))
            /\ {byMonth[i].month : i \in 1..Len(byMonth)} = MonthsOf(InputDays)
            /\ \A i \in 1..Len(byMonth) :
                  byMonth[i].totalContributions = MonthTotal(InputDays, byMonth[i].month)
            /\ \A i, j \in 1..Len(byMonth) :
                  i < j => MonthNumber(byMonth[i].month) < MonthNumber(byMonth[j].month)

\* the input lists a day of January 2024 before a day of December 2023, and
\* December holds two days with contributions
C11_Witness ==
    /\ Processed
    /\ Len(InputDays) = 3
    /\ InputDays[1].date >= 0
    /\ InputDays[2].date < 0 /\ InputDays[2].contributionCount > 0
    /\ InputDays[3].date < 0 /\ InputDays[3].contributionCount > 0
    /\ InputDays[1].contributionCount > 0
    /\ Len(processed.stats.contributionsByMonth) = 2
    /\ processed.stats.contributionsByMonth[1].month = <<2023, 12>>
    /\ processed.stats.contributionsByMonth[1].totalContributions
          = InputDays[2].contributionCount + InputDays[3].contributionCount

----------------------------------------------------------------------------
(* C12: the markup holds exactly one contribution square per day of every  *)
(* week, in week order; the square of a day of week index w sits at        *)
(* x = leftPadding + w * (cellSize + cellPadding) and, for the day's       *)
(* weekday FIELD d, at y = topPadding + d * (cellSize + cellPadding), and   *)
(* is filled with the palette entry of the level of the day's count.       *)

\* the pairs <<week index, day>> of the data, in week order
WeekDayPairs ==
    Concat([w \in 1..Len(data.weeks) |->
        [i \in 1..Len(data.weeks[w].contributionDays) |->
            [weekIndex |-> w - 1, day |-> data.weeks[w].contributionDays[i]]]])

\* cellSize + cellPadding as generateSVG works with them
Pitch == Effective("cellSize") + Effective("cellPadding")

C12_Squares ==
    Rendered =>
        LET squares == OfClass("contribution-square")
            rects == SelectSeq(svg, LAMBDA e : e.kind = "rect" /\ "dataDate" \in DOMAIN e)
        IN  /\ squares = rects
            /\ Len(squares) = Len(WeekDayPairs)
            /\ \A i \in 1..Len(squares) :
                  LET day == WeekDayPairs[i].day
                      level == getContributionLevel(day.contributionCount)
                  IN  /\ squares[i].dataDate = day.date
                      /\ squares[i].x = svgDimensions.leftPadding + WeekDayPairs[i].weekIndex * Pitch
                      /\ squares[i].y = svgDimensions.topPadding + day.weekday * Pitch
                      /\ level < Len(Effective("colors"))
                            => squares[i].fill = Effective("colors")[level + 1]

\* a week whose second day carries the weekday of its first, week index 1
\* with a day, a palette of five entries and a geometry of the caller
C12_Witness ==
    /\ Rendered
    /\ "colors" \in DOMAIN options /\ Len(options.colors) = 5
    /\ "cellSize" \in DOMAIN options /\ "cellPadding" \in DOMAIN options
    /\ options.cellPadding > 0
    /\ Len(data.weeks) = 2
    /\ data.weeks[1].contributionDays[1].weekday = 4
    /\ Len(OfClass("contribution-square")) = 3
    /\ OfClass("contribution-square")[1].y = svgDimensions.topPadding + 4 * Pitch
    /\ OfClass("contribution-square")[3].x = svgDimensions.leftPadding + Pitch
    /\ OfClass("contribution-square")[2].fill = options.colors[5]

----------------------------------------------------------------------------
(* C13: the document returned by generateLinkedInHeader and by             *)
(* generateCustomLinkedInBanner opens with its one root svg element, which *)
(* declares width 1584 and height 396, for every data (any number of       *)
(* weeks) and every options value.                                         *)

\* a banner preset has returned its markup
BannerRendered == pc \in {"header", "banner"}

C13_BannerCanvas ==
    BannerRendered =>
        /\ svg[1].kind = "svg"
        /\ svg[1].width = 1584
        /\ svg[1].height = 396
        /\ svg[1].width = 4 * svg[1].height
        /\ \A i \in 2..Len(svg) : svg[i].kind # "svg"

\* the header of a 53-week calendar with cells, in a theme of the caller
C13_Witness ==
    /\ pc = "header"
    /\ Len(data.weeks) = 53
    /\ "theme" \in DOMAIN options /\ options.theme = "minimal"
    /\ "headerText" \in DOMAIN options
    /\ svg[1] = [kind |-> "svg", class |-> "", width |-> 1584, height |-> 396]

----------------------------------------------------------------------------
(* C14: generateCustomLinkedInBanner renders the caller's texts: each of   *)
(* username, headerText, subText and motivationalText that the caller      *)
(* supplies is the content of a text element of the banner (the username   *)
(* as the handle built from it, the motivational text line by line), and   *)
(* the built-in default wording appears only for an option the caller      *)
(* omits.                                                                  *)

\* the contents of the text elements of the markup
TextContents == {svg[i].content : i \in {j \in 1..Len(svg) : svg[j].kind = "text"}}

\* the built-in wording of the sub-heading, as the banner spells it
DefaultSubHeading ==
    {"Building refined user interfaces and the solid infrastructure that supports them",
     "Building refined user interfaces",
     "and the solid infrastructure that supports them"}

C14_CallerTextsRendered ==
    pc = "banner" =>
        /\ "username" \in DOMAIN options
              => /\ \/ options.username \in TextContents
                    \/ ("@" \o options.username \o "20") \in TextContents
                 /\ "@rndmcodeguy20" \notin TextContents
        /\ "headerText" \in DOMAIN options
              => /\ options.headerText \in TextContents
                 /\ "Software engineer" \notin TextContents
        /\ "subText" \in DOMAIN options
              => /\ options.subText \in TextContents
                 /\ TextContents \cap DefaultSubHeading = {}
        /\ "motivationalText" \in DOMAIN options
              => \A l \in 1..Len(split(options.motivationalText)) :
                    trim(split(options.motivationalText)[l]) \in TextContents

----------------------------------------------------------------------------
(* C15: generateCustomColorHeatmap(data, scheme, options) returns the      *)
(* markup generateSVG returns for the same data and the caller's options   *)
(* with colors replaced by the scheme's palette: each of github, green,    *)
(* blue, purple and orange has a palette of 5 colours, every cell is       *)
(* filled from it by level and the legend shows its 5 swatches even when   *)
(* the caller's options carry a colors entry, and every other option of    *)
(* the caller takes effect as in generateSVG.                              *)

\* the caller's options with the colors entry set to a palette
WithColors(given, palette) ==
    [k \in DOMAIN given \cup {"colors"} |-> IF k = "colors" THEN palette ELSE given[k]]

\* the legend swatches of the markup: the rects that are not cells
Swatches == SelectSeq(svg, LAMBDA e : e.kind = "rect" /\ "dataDate" \notin DOMAIN e)

C15_SchemePalette ==
    /\ DOMAIN colorSchemes = {"github", "green", "blue", "purple", "orange"}
    /\ \A name \in DOMAIN colorSchemes : Len(colorSchemes[name]) = 5
    /\ pc = "schemed" =>
        LET palette == colorSchemes[colorScheme]
            squares == OfClass("contribution-square")
        IN  /\ svg = generateSVG(data, WithColors(options, palette))
            /\ \A i \in 1..Len(squares) :
                  squares[i].fill = palette[getContributionLevel(squares[i].dataCount) + 1]
            /\ Effective("showLegend")
                  => [i \in 1..Len(Swatches) |-> Swatches[i].fill] = palette
            /\ \A i \in 1..Len(squares) : squares[i].width = Effective("cellSize")

\* the caller passes its own 5 colours and a cell size with the purple scheme
C15_Witness ==
    /\ pc = "schemed"
    /\ colorScheme = "purple"
    /\ "colors" \in DOMAIN options /\ Len(options.colors) = 5
    /\ options.colors # colorSchemes.purple
    /\ "cellSize" \in DOMAIN options
    /\ Effective("showLegend")
    /\ Len(OfClass("contribution-square")) = 7
    /\ OfClass("contribution-square")[5].fill = "#7c3aed"
    /\ Swatches[1].fill = "#faf5ff"

----------------------------------------------------------------------------
(* C16: in a conversion that does not fail, convertToPNG resizes to        *)
(* exactly width x height, whatever the scale, when both are supplied;     *)
(* otherwise, when the scale is not 1, to round(svgWidth * scale) x        *)
(* round(svgHeight * scale), with 1584 and 396 for a size the SVG metadata *)
(* does not give; otherwise it does not resize.  convertToHighQualityPNG   *)
(* is convertToPNG with quality 100 and the given scale, 2 by default.     *)

\* the resize calls made on the sharp instance
Resizes == SelectSeq(calls, LAMBDA c : c.op = "resize")

\* the png() call made on the sharp instance
PngCalls == SelectSeq(calls, LAMBDA c : c.op = "png")

\* n is x = size * scale rounded to the nearest integer, halves going up
IsRounded(n, size, scale) ==
    /\ 2 * n * scale.den <= 2 * size * scale.num + scale.den
    /\ 2 * size * scale.num + scale.den < 2 * (n + 1) * scale.den

\* the size sharp reads from the SVG, 1584 x 396 where it reads none
SvgWidth == IF "width" \in DOMAIN env.metadata THEN env.metadata.width ELSE 1584

SvgHeight == IF "height" \in DOMAIN env.metadata THEN env.metadata.height ELSE 396

\* the conversion resized once, to a size the scale gives
ScaledBy(scale) ==
    /\ Len(Resizes) = 1
    /\ IsRounded(Resizes[1].width, SvgWidth, scale)
    /\ IsRounded(Resizes[1].height, SvgHeight, scale)

\* convertToHighQualityPNG behaves as the claim says
HighQualityAsClaimed ==
    (pc = "convertedHq" /\ env.failAt = "none") =>
        LET scale == IF "scale" \in DOMAIN options THEN options.scale ELSE Quot(4, 2)
        IN  /\ calls = convertToPNG("heatmap.svg", "heatmap-hq.png",
                                    [quality |-> 100, scale |-> scale], env).calls
            /\ PngCalls[1].quality = 100
            /\ IF scale = Quot(2, 2) THEN Resizes = <<>> ELSE ScaledBy(scale)

\* the scale convertToPNG works with
GivenScale == IF "scale" \in DOMAIN options THEN options.scale ELSE Quot(2, 2)

C16_ExplicitSizeWins ==
    /\ HighQualityAsClaimed
    /\ (pc = "converted" /\ env.failAt = "none") =>
        IF "width" \in DOMAIN options /\ "height" \in DOMAIN options
        THEN Resizes = <<[op |-> "resize", width |-> options.width,
                          height |-> options.height]>>
        ELSE IF GivenScale # Quot(2, 2) THEN ScaledBy(GivenScale)
        ELSE Resizes = <<>>

\* C16 as amended: a width or height of 0 counts as not supplied
C16_NonZeroSizeWins ==
    /\ HighQualityAsClaimed
    /\ (pc = "converted" /\ env.failAt = "none") =>
        IF /\ "width" \in DOMAIN options /\ options.width # 0
           /\ "height" \in DOMAIN options /\ options.height # 0
        THEN Resizes = <<[op |-> "resize", width |-> options.width,
                          height |-> options.height]>>
        ELSE IF GivenScale # Quot(2, 2) THEN ScaledBy(GivenScale)
        ELSE Resizes = <<>>

\* a conversion to 1920 x 1080 with a scale of 3 also given
C16_Witness ==
    /\ pc = "converted"
    /\ env.failAt = "none"
    /\ "width" \in DOMAIN options /\ options.width = 1920
    /\ "height" \in DOMAIN options /\ options.height = 1080
    /\ "scale" \in DOMAIN options /\ options.scale = Quot(6, 2)
    /\ Resizes = <<[op |-> "resize", width |-> 1920, height |-> 1080]>>
    /\ calls[Len(calls)] = [op |-> "toFile", file |-> "heatmap.png"]

----------------------------------------------------------------------------
(* C17: saveSVGToFile returns normally and the promise of convertToPNG     *)
(* resolves whatever fails (the file write, loading sharp, reading the SVG *)
(* file, resizing, writing the PNG), after logging: a sharp that is not    *)
(* installed is reported by an informational 'skipped' message, every      *)
(* other failure by a logged error, and a call in which nothing fails logs *)
(* no error.                                                               *)

\* a file or raster call has ended
FilesDone == pc \in {"saved", "converted", "convertedHq"}

\* a call of the environment's failing kind was made
FailureHappened ==
    \E i \in 1..Len(calls) : calls[i].op = env.failAt

\* the console shows an entry of a level
Logged(level) == \E i \in 1..Len(log) : log[i].level = level

C17_FailuresSwallowed ==
    FilesDone =>
        /\ outcome = Completed
        /\ Len(log) = 1
        /\ (FailureHappened /\ env.sharp = "missing")
              => /\ log[1].level = "log"
                 /\ log[1].text = "Sharp not installed - PNG conversion skipped. Install with: bun add sharp"
        /\ (FailureHappened /\ env.sharp # "missing") => log[1].level = "error"
        /\ ~FailureHappened => ~Logged("error")
        /\ FailureHappened => calls[Len(calls)].op = env.failAt

\* the write of the PNG fails after a resize
C17_Witness ==
    /\ pc = "converted"
    /\ env.failAt = "toFile"
    /\ Len(Resizes) = 1
    /\ calls[Len(calls)].op = "toFile"
    /\ log = <<LogEntry("error", "Error converting to PNG:")>>
    /\ outcome = Completed

----------------------------------------------------------------------------
(* C18: when the data-source client fails, fetchContributionData rejects   *)
(* with the very error the client threw and returns no data; the script    *)
(* createMyCustomLinkedInBanner then runs no normalize, render, save or    *)
(* convert step, prints the guidance that the error message selects by     *)
(* substring, and its function resolves without rethrowing.                *)

\* the client of this run fails
ClientFails == env.client.kind = "error"

\* the console shows an error entry with a text
Printed(text) == \E i \in 1..Len(log) : log[i] = LogEntry("error", text)

\* the calls made on the file system and on sharp
FileCalls == SelectSeq(calls, LAMBDA c : c.op # "graphql")

C18_FetchFailureAborts ==
    (ClientFails /\ pc \in {"awaitFetch", "scriptDone"}) =>
        /\ fetchResult = Rejected(env.client.error)
        /\ calendar = Idle /\ processed = Idle /\ data = Idle /\ svg = Idle
        /\ FileCalls = <<>>
        /\ pc = "scriptDone" =>
            LET error == env.client.error
                badCredentials == error.isError /\ includes(error.message, "Bad credentials")
                unknownUser == /\ error.isError
                               /\ ~includes(error.message, "Bad credentials")
                               /\ includes(error.message, "Could not resolve to a User")
            IN  /\ outcome = Resolved(<<>>)
                /\ Printed("Error creating banner:")
                /\ Printed("Set your GitHub token in .env file") <=> badCredentials
                /\ Printed("GitHub username not found") <=> unknownUser

\* the run of an unknown user has ended
C18_Witness ==
    /\ pc = "scriptDone"
    /\ ClientFails
    /\ env.client.error.message[1] = "Could not resolve to a User"
    /\ fetchResult.kind = "rejected"
    /\ Printed("Error fetching contribution data:")
    /\ Printed("GitHub username not found")
    /\ outcome = Resolved(<<>>)

----------------------------------------------------------------------------
(* C19: rendering keeps no state between calls. Whatever generateSVG and   *)
(* preset calls were made on one SVGHeatmapGenerator, the generator's      *)
(* default options are the ones it was constructed with, every call left   *)
(* the data it was given as it was, every call returned markup, and two    *)
(* calls with equal data and options returned the same markup, whatever    *)
(* was called in between.                                                  *)

\* call i and call j of the session were given the same method, data and options
SameCall(i, j) ==
    /\ history[i].call = history[j].call
    /\ history[i].data = history[j].data

----------------------------------------------------------------------------
(* C20: generateSVG merges the caller's options over the defaults: every   *)
(* top-level option the caller supplies is the one the layout is computed  *)
(* with, and the padding is completed per field: for each of padding.top,  *)
(* right, bottom and left that the caller did not supply, the dimensions   *)
(* are computed with the default (top 10, right 10, bottom 20, left 10),   *)
(* the left and top margins being 30 and 20 where the day and month labels *)
(* are shown, whatever the padding.                                        *)

PaddingFields == {"top", "right", "bottom", "left"}

\* the caller's options carry no value for the padding field f
NotSupplied(f) == f \notin DOMAIN Effective("padding")

\* the margin the dimensions carry for the padding field f
MarginOf(f) ==
    CASE f = "top" -> svgDimensions.topPadding
      [] f = "right" -> svgDimensions.rightPadding
      [] f = "bottom" -> svgDimensions.bottomPadding
      [] f = "left" -> svgDimensions.leftPadding

\* the margin of a padding field is fixed by a label row or column
LabelMargin(f) ==
    CASE f = "left" /\ Effective("showDayLabels") -> <<30>>
      [] f = "top" /\ Effective("showMonthLabels") -> <<20>>
      [] OTHER -> <<>>

DefaultPadding == [top |-> 10, right |-> 10, bottom |-> 20, left |-> 10]

----------------------------------------------------------------------------
(* C21: generateMonthLabels scans the weeks in order and emits a label at  *)
(* week index w exactly when w > 0 and the month of week w's firstDay      *)
(* differs from the month of the most recently emitted label (no label     *)
(* emitted yet counts as differing); the label names that month and sits   *)
(* at x = leftPadding + w * (cellSize + cellPadding), week 0 never carries *)
(* a label, and two consecutively emitted labels never name the same       *)
(* month.                                                                  *)

\* the weeks (0-based) at whose x-position one of the labels sits
LabelledWeeks(labels) ==
    LET xs == {labels[i].x : i \in 1..Len(labels)}
    IN  {w \in 0..(Len(data.weeks) - 1) : WeekX(w) \in xs}

\* week w is due a label by the rule of the claim, `labelled` being the
\* weeks that carry one
LabelDue(w, labelled) ==
    LET before == {v \in labelled : v < w}
    IN  /\ w > 0
        /\ \/ before = {}
           \/ WeekMonth(w) # WeekMonth(SetMax(before))

C21_MonthLabelRule ==
    MonthLabelsOn =>
        LET labels == OfClass("month-label")
            labelled == LabelledWeeks(labels)
        IN  /\ \A w \in 0..(Len(data.weeks) - 1) :
                (w \in labelled) <=> LabelDue(w, labelled)
            /\ \A w \in labelled :
                \E i \in 1..Len(labels) :
                    /\ labels[i].x = WeekX(w)
                    /\ labels[i].content = monthNames[WeekMonth(w) + 1]
            /\ 0 \notin labelled
            /\ Len(labels) = Cardinality(labelled)
            /\ \A i \in 1..(Len(labels) - 1) :
                /\ labels[i].x < labels[i + 1].x
                /\ labels[i].content # labels[i + 1].content

\* weeks 0, 1 and 2 start in one month and week 3 in another: week 1 is
\* labelled, week 2 is not, week 3 is
C21_Witness ==
    /\ MonthLabelsOn
    /\ Len(data.weeks) = 4
    /\ WeekMonth(0) = WeekMonth(1)
    /\ WeekMonth(1) = WeekMonth(2)
    /\ WeekMonth(2) # WeekMonth(3)
    /\ LabelledWeeks(OfClass("month-label")) = {1, 3}
    /\ Len(OfClass("month-label")) = 2

----------------------------------------------------------------------------
(* C22: calculateDimensions uses leftPadding = 30 when showDayLabels is    *)
(* true and otherwise exactly the configured padding.left, and topPadding  *)
(* = 20 when showMonthLabels is true and otherwise exactly the configured  *)
(* padding.top, for every configured non-negative padding value.           *)

\* the padding field f as configured: the caller's, else the default
ConfiguredPadding(f) ==
    IF f \in DOMAIN Effective("padding") THEN Effective("padding")[f]
    ELSE defaultOptions.padding[f]

C22_ConfiguredPaddingUsed ==
    Rendered =>
        /\ svgDimensions.leftPadding =
                IF Effective("showDayLabels") THEN 30 ELSE ConfiguredPadding("left")
        /\ svgDimensions.topPadding =
                IF Effective("showMonthLabels") THEN 20 ELSE ConfiguredPadding("top")

----------------------------------------------------------------------------
(* C23: the markup returned by generateSVG consists of, in this order and  *)
(* each at most once: the opening svg element carrying the computed total  *)
(* width and height, the style block, the title, the day-of-week labels,   *)
(* the month labels, the grid cells, the legend, the summary and the       *)
(* closing tag; no element of a component stands before an element of a    *)
(* component listed earlier.                                               *)

\* the place in the pipeline of the component an element belongs to
StageOf(e) ==
    CASE e.kind = "svg" -> 1
      [] e.kind = "style" -> 2
      [] e.kind = "text" /\ e.class = "title" -> 3
      [] e.kind = "text" /\ e.class = "day-label" -> 4
      [] e.kind = "text" /\ e.class = "month-label" -> 5
      [] e.kind = "rect" /\ e.class = "contribution-square" -> 6
      [] e.kind = "rect" /\ e.class = "" -> 7
      [] e.kind = "text" /\ e.class = "legend-text" -> 7
      [] e.kind = "text" /\ e.class = "summary" -> 8
      [] e.kind = "close" -> 9
      [] OTHER -> 0

\* the number of elements of the markup that belong to the stage
CountOfStage(stage) == Cardinality({i \in 1..Len(svg) : StageOf(svg[i]) = stage})

C23_PipelineOrder ==
    Rendered =>
        /\ \A i \in 1..Len(svg) : StageOf(svg[i]) \in 1..9
        /\ \A i \in 1..(Len(svg) - 1) : StageOf(svg[i]) <= StageOf(svg[i + 1])
        /\ svg[1].kind = "svg"
        /\ svg[1].width = svgDimensions.totalWidth
        /\ svg[1].height = svgDimensions.totalHeight
        /\ svg[2].kind = "style"
        /\ svg[Len(svg)].kind = "close"
        /\ CountOfStage(1) = 1
        /\ CountOfStage(2) = 1
        /\ CountOfStage(3) <= 1
        /\ CountOfStage(4) \in {0, 3}
        /\ CountOfStage(5) <= Len(data.weeks)
        /\ CountOfStage(6) = Len(flattenWeeks(data.weeks))
        /\ CountOfStage(7) \in {0, 2 + Len(Effective("colors"))}
        /\ CountOfStage(8) <= 1
        /\ CountOfStage(9) = 1

\* every component is in the markup
C23_Witness ==
    /\ Rendered
    /\ \A stage \in 1..9 : CountOfStage(stage) >= 1

----------------------------------------------------------------------------
(* C24: which components the output of generateSVG holds.                  *)

\* the markup holds an element of the stage
HasStage(stage) == \E i \in 1..Len(svg) : StageOf(svg[i]) = stage

\* the grid cells of the markup
Cells == OfClass("contribution-square")

\* the title, day labels, legend, summary, tooltips, hover rule and corner
\* attributes follow their toggles
TogglesFollowed ==
    /\ HasStage(3) <=> (truthy(data.username) /\ Effective("showTitle"))
    /\ HasStage(4) <=> Effective("showDayLabels")
    /\ HasStage(7) <=> Effective("showLegend")
    /\ HasStage(8) <=> Effective("showSummary")
    /\ svg[2].hoverRule <=> Effective("showTooltips")
    /\ \A i \in 1..Len(Cells) :
        /\ Cells[i].tooltip # <<>> <=> Effective("showTooltips")
        /\ Cells[i].radius # <<>> <=> Effective("borderRadius") > 0

(* C24 as claimed: the title is present if and only if data.username is    *)
(* non-empty and showTitle is true; the day labels iff showDayLabels; the  *)
(* month labels iff showMonthLabels; the legend iff showLegend; the        *)
(* summary iff showSummary; the per-cell tooltip and the hover style rule  *)
(* iff showTooltips; the rx/ry corner attributes are on every cell iff     *)
(* borderRadius > 0; the grid cells are always present.                    *)
C24_ComponentsIffToggles ==
    Rendered =>
        /\ TogglesFollowed
        /\ HasStage(5) <=> Effective("showMonthLabels")
        /\ HasStage(6)

(* C24 as amended: the title, day labels, legend, summary, tooltips, hover *)
(* rule and corner attributes are as claimed; the month labels are absent  *)
(* when showMonthLabels is false and present when it is true and the       *)
(* calendar has at least two weeks (a calendar of one week or none gets no *)
(* month label); the grid holds one cell per day, so cells are present     *)
(* exactly when the calendar holds a day.                                  *)
C24_ComponentsFollowTogglesAndData ==
    Rendered =>
        /\ TogglesFollowed
        /\ HasStage(5) <=> (Effective("showMonthLabels") /\ Len(data.weeks) >= 2)
        /\ HasStage(6) <=> flattenWeeks(data.weeks) # <<>>
        /\ Len(Cells) = Len(flattenWeeks(data.weeks))

\* two weeks with days, the title, legend and tooltips switched off and a
\* corner radius given: month labels and cells with rx/ry and no tooltip
C24_Witness ==
    /\ Rendered
    /\ Len(data.weeks) = 2
    /\ truthy(data.username)
    /\ "showTitle" \in DOMAIN options /\ ~options.showTitle
    /\ "showLegend" \in DOMAIN options /\ ~options.showLegend
    /\ "showTooltips" \in DOMAIN options /\ ~options.showTooltips
    /\ "borderRadius" \in DOMAIN options /\ options.borderRadius > 0
    /\ ~HasStage(3)
    /\ HasStage(5)
    /\ ~HasStage(7)
    /\ Len(Cells) = 3
    /\ \A i \in 1..Len(Cells) : Cells[i].tooltip = <<>> /\ Cells[i].radius # <<>>
    /\ ~svg[2].hoverRule

----------------------------------------------------------------------------
(* C25: the banner presets place and colour the heatmap with the same      *)
(* mapping as the core renderer: in generateLinkedInHeader and             *)
(* generateCustomLinkedInBanner every day of every week yields exactly one *)
(* rect at x = originX + weekIndex * (cell + pad) and y = originY +        *)
(* day.weekday * (cell + pad), filled with                                 *)
(* themePalette[getContributionLevel(contributionCount)]: the grid that    *)
(* generateContributionSquares draws, moved to the preset's origin, with   *)
(* the preset's cell size, padding and palette of five colours.            *)

\* the heatmap rects of a banner: the rounded ones (the background and the
\* accent bar carry no rx/ry)
HeatmapRects == SelectSeq(svg, LAMBDA e : e.kind = "rect" /\ "radius" \in DOMAIN e)

\* the preset's cell size, padding, origin (the y-origin doubled, the
\* header's being a half) and palette
PresetGrid ==
    IF pc = "header"
    THEN [cell |-> 8, pad |-> 1,
          originX |-> 1584 - Len(data.weeks) * 9 - 60,
          originY2 |-> 396 - 7 * 9,
          palette |-> headerThemes(options)[IF "theme" \in DOMAIN options
                                             THEN options.theme ELSE "black"].colors]
    ELSE [cell |-> 12, pad |-> 2,
          originX |-> 1584 - Len(data.weeks) * 14 - 60,
          originY2 |-> 2 * 50,
          palette |-> IF "heatmapTheme" \in DOMAIN options /\ options.heatmapTheme # "dark"
                      THEN <<"#161b22", "#0d1117", "#21262d", "#30363d", "#8b949e">>
                      ELSE <<"#e4e4e7", "#a1a1aa", "#52525b", "#27272a", "#09090b">>]

\* the grid of the core renderer for the same weeks, at the origin
CoreGrid ==
    generateContributionSquares(data.weeks, 0, 0,
        [cellSize |-> PresetGrid.cell, cellPadding |-> PresetGrid.pad,
         colors |-> PresetGrid.palette, borderRadius |-> 0, showTooltips |-> FALSE])

C25_PresetGridIsCoreGrid ==
    BannerRendered =>
        LET grid == PresetGrid
            core == CoreGrid
            days == flattenWeeks(data.weeks)
        IN  /\ Len(grid.palette) = 5
            /\ Len(HeatmapRects) = Len(days)
            /\ Len(core) = Len(days)
            /\ \A i \in 1..Len(HeatmapRects) :
                /\ HeatmapRects[i].x = grid.originX + core[i].x
                /\ HeatmapRects[i].y = Quot(grid.originY2 + 2 * core[i].y, 2)
                /\ HeatmapRects[i].y.num
                      = grid.originY2 + 2 * days[i].weekday * (grid.cell + grid.pad)
                /\ HeatmapRects[i].width = core[i].width
                /\ HeatmapRects[i].height = grid.cell
                /\ HeatmapRects[i].fill = core[i].fill
                /\ HeatmapRects[i].fill
                      = grid.palette[getContributionLevel(days[i].contributionCount) + 1]

\* a banner over two weeks, one of whose days stands at a position in its
\* week that differs from its weekday
C25_Witness ==
    /\ BannerRendered
    /\ Len(data.weeks) = 2
    /\ Len(HeatmapRects) = 3
    /\ data.weeks[1].contributionDays[1].weekday = 4
    /\ HeatmapRects[1].y.num = PresetGrid.originY2 + 8 * (PresetGrid.cell + PresetGrid.pad)
    /\ HeatmapRects[3].x = PresetGrid.originX + PresetGrid.cell + PresetGrid.pad

----------------------------------------------------------------------------
(* C26: in createLinkedInHeatmap the four PNG conversions are attempted    *)
(* one after another in a fixed order, each only after the SVGs were       *)
(* generated and saved; a failure of any one conversion (raster library    *)
(* absent, or any conversion or write error) is handled inside             *)
(* convertSvgToPng and never prevents the later conversions from being     *)
(* attempted nor the script from reaching its completion message.          *)

\* the calls of the script after the request and the four saves (two calls
\* each)
ConversionCalls == SubSeq(calls, 10, Len(calls))

\* the conversions attempted so far: each begins by requiring sharp
Attempts == Len(SelectSeq(ConversionCalls, LAMBDA c : c.op = "require-sharp"))

\* the files the conversions were told to write, PNG or fallback SVG, in
\* the order of the calls
ConversionFiles ==
    LET targets == SelectSeq(ConversionCalls,
                             LAMBDA c : c.op \in {"toFile", "writeFileSync"})
    IN  [i \in 1..Len(targets) |-> targets[i].file]

\* the script has printed the text
LinkedInLogged(text) == \E i \in 1..Len(log) : log[i].text = text

\* createLinkedInHeatmap has ended after a fetch that returned data
LinkedInEnded == pc = "liDone" /\ fetchResult.kind = "resolved"

C26_ConversionsNeverAbort ==
    /\ Attempts > 0 =>
            /\ Len(svg) = 4
            /\ \A n \in 1..4 :
                    /\ calls[2 * n].op = "require-fs"
                    /\ calls[2 * n + 1].op = "writeFileSync"
                    /\ calls[2 * n + 1].file = linkedInStems[n] \o ".svg"
    /\ \A i \in 1..Len(ConversionFiles) :
            \E n \in 1..4 : ConversionFiles[i] \in {linkedInStems[n] \o ".png",
                                                    linkedInStems[n] \o ".svg"}
    /\ LinkedInEnded =>
            /\ Attempts = 4
            /\ LinkedInLogged("LinkedIn headers created successfully!")
            /\ outcome = Resolved(<<svg[1]>>)

----------------------------------------------------------------------------
(* fetchRepositoryActivity.                                                *)

\* the order in which the requests of the repositories settled
CompletionOrder ==
    SelectSeq(calls, LAMBDA c : c.op = "settled")

\* the entry the listing's repository i must have in the result
ExpectedEntry(i) ==
    LET repo == env.listing.repos[i]
        response == env.responses[i]
    IN  [name |-> repo.name, fullName |-> repo.full_name,
         description |-> repo.description, language |-> repo.language,
         stargazersCount |-> repo.stargazers_count, forksCount |-> repo.forks_count,
         updatedAt |-> repo.updated_at,
         commitActivity |-> IF response.kind = "data" THEN response.data ELSE <<>>]

\* C27: when the listing succeeds, whichever requests fail and in whatever
\* order they settle, the call resolves with one entry per listed repository,
\* in listing order, a failed repository's entry holding its metadata and an
\* empty commitActivity; the call rejects only when the listing fails.
C27_FailuresIsolated ==
    (pc = "repoDone") =>
        IF env.listing.kind = "data"
        THEN /\ outcome.kind = "resolved"
             /\ Len(outcome.value) = Len(env.listing.repos)
             /\ \A i \in 1..Len(env.listing.repos) : outcome.value[i] = ExpectedEntry(i)
        ELSE /\ outcome.kind = "rejected"
             /\ outcome.error = env.listing.error

\* three repositories, the second failing, settled last-to-first
C27_Witness ==
    /\ pc = "repoDone"
    /\ env.listing.kind = "data"
    /\ Len(env.listing.repos) = 3
    /\ env.responses[1].kind = "data"
    /\ env.responses[2].kind = "fail"
    /\ env.responses[3].kind = "data"
    /\ [k \in 1..3 |-> CompletionOrder[k].index] = <<3, 2, 1>>
    /\ outcome.kind = "resolved"
    /\ outcome.value[2].commitActivity = <<>>
    /\ outcome.value[1].commitActivity # <<>>

----------------------------------------------------------------------------
(* Streak bounds.                                                          *)

\* the number of days of the input with a positive count
PositiveDays ==
    Cardinality({i \in 1..Len(InputDays) : InputDays[i].contributionCount > 0})

\* C28: for every day list the streaks of calculateStreaks satisfy
\* 0 <= current <= longest <= (number of days with count > 0), and longest
\* is 0 exactly when no day has count > 0.
C28_StreakBounds ==
    Processed =>
        LET streaks == processed.stats.streaks
        IN  /\ 0 <= streaks.current
            /\ streaks.current <= streaks.longest
            /\ streaks.longest <= PositiveDays
            /\ (streaks.longest = 0) <=> (PositiveDays = 0)

\* a list whose positive days are split by a day without contributions
C28_Witness ==
    /\ Processed
    /\ 0 < processed.stats.streaks.current
    /\ processed.stats.streaks.longest < PositiveDays

----------------------------------------------------------------------------
(* generateModularSVG.                                                     *)

\* generateModularSVG has returned
Modular == pc = "modular"

\* the flags generateModularSVG was called with
GivenFlags == history[1].components

\* C29: for every data and options, generateModularSVG(data, {}, options),
\* with every component flag left unset, returns exactly the markup of
\* generateSVG(data, options).
C29_ModularIsGenerateSVG ==
    (Modular /\ DOMAIN GivenFlags = {}) => svg = generateSVG(data, options)

\* no flag given, and the markup has a title, labels, cells, a legend and
\* a summary
C29_Witness ==
    /\ Modular
    /\ DOMAIN GivenFlags = {}
    /\ \A stage \in 1..9 : HasStage(stage)

----------------------------------------------------------------------------
(* Cells inside the grid area.                                             *)

\* the calendar and the geometry the statement is about: at least one week,
\* weekdays 0..6, cellSize > 0 and cellPadding >= 0
GridWellFormed ==
    /\ Len(data.weeks) >= 1
    /\ \A w \in 1..Len(data.weeks) :
          \A i \in 1..Len(data.weeks[w].contributionDays) :
              data.weeks[w].contributionDays[i].weekday \in 0..6
    /\ Effective("cellSize") > 0
    /\ Effective("cellPadding") >= 0

\* C30: for a calendar of at least one week with weekdays in 0..6,
\* cellSize > 0 and cellPadding >= 0, every cell rect of generateSVG lies
\* inside the grid area of the declared document: leftPadding <= x,
\* x + cellSize <= totalWidth - rightPadding, topPadding <= y and
\* y + cellSize <= totalHeight - bottomPadding, where totalWidth and
\* totalHeight, the paddings around the grid's width and height, are the
\* width and height of the root element.
C30_CellsInsideGrid ==
    (Rendered /\ GridWellFormed) =>
        LET d == svgDimensions
            totalWidth == d.leftPadding + d.graphWidth + d.rightPadding
            totalHeight == d.topPadding + d.graphHeight + d.bottomPadding
            cellSize == Effective("cellSize")
        IN  /\ svg[1].kind = "svg"
            /\ svg[1].width = totalWidth
            /\ svg[1].height = totalHeight
            /\ \A i \in 1..Len(Cells) :
                  /\ d.leftPadding <= Cells[i].x
                  /\ Cells[i].x + cellSize <= totalWidth - d.rightPadding
                  /\ d.topPadding <= Cells[i].y
                  /\ Cells[i].y + cellSize <= totalHeight - d.bottomPadding

\* a cell that touches the right edge of the grid area and one that touches
\* its bottom edge, in a grid of several weeks whose geometry the caller set
C30_Witness ==
    /\ Rendered
    /\ GridWellFormed
    /\ Len(data.weeks) >= 2
    /\ "cellSize" \in DOMAIN options
    /\ Effective("cellPadding") > 0
    /\ \E i \in 1..Len(Cells) :
          Cells[i].x + Effective("cellSize")
              = svg[1].width - svgDimensions.rightPadding
    /\ \E i \in 1..Len(Cells) :
          Cells[i].y + Effective("cellSize")
              = svg[1].height - svgDimensions.bottomPadding

====
